---- MODULE Spec2Model ----
(***************************************************************************)
(* Model of the result correlation of cucumber-java-runner                 *)
(* (src/src/resultProcessor.ts): the path matcher, the per-feature         *)
(* extractor with its scenario classification, the feature aggregator and  *)
(* the painting of the test tree; of the batch that drives them            *)
(* (filterTestItems and executeBatchTests of the test controller, the      *)
(* invocation and the wait of src/src/cucumberRunner.ts); and of the       *)
(* watcher of the feature files with its debounce timers.                  *)
(*                                                                         *)
(* Strings are sequences of chunks.  A path is a sequence of one-character *)
(* strings; a label or a message is a sequence of text chunks and          *)
(* concatenation is \o.                                                    *)
(***************************************************************************)
EXTENDS Integers, Sequences, FiniteSets, TLC

(***************************************************************************)
(* Bounds                                                                  *)
(***************************************************************************)
MaxSteps == 4
MaxHooks == 1
MaxEntries == 2
MaxMarks == 2
MaxSegments == 2

(***************************************************************************)
(* String primitives of the JavaScript runtime, on sequences of characters *)
(***************************************************************************)
startsWith(s, p) ==
  /\ Len(p) <= Len(s)
  /\ SubSeq(s, 1, Len(p)) = p

endsWith(s, p) ==
  /\ Len(p) <= Len(s)
  /\ SubSeq(s, Len(s) - Len(p) + 1, Len(s)) = p

\* s.replace(/^p/, ''): drops the prefix p when s starts with it
removePrefix(s, p) ==
  IF startsWith(s, p) THEN SubSeq(s, Len(p) + 1, Len(s)) ELSE s

\* s.replace(/\\/g, '/')
replaceBackslashes(s) ==
  [i \in 1..Len(s) |-> IF s[i] = "\\" THEN "/" ELSE s[i]]

UpperCase == <<"A", "D", "E", "F", "I", "L", "W", "X">>
LowerCase == <<"a", "d", "e", "f", "i", "l", "w", "x">>

lowerChar(c) ==
  IF \E k \in 1..Len(UpperCase) : UpperCase[k] = c
  THEN LowerCase[CHOOSE k \in 1..Len(UpperCase) : UpperCase[k] = c]
  ELSE c

toLowerCase(s) == [i \in 1..Len(s) |-> lowerChar(s[i])]

\* s.split('/'): the pieces between the separators, empty pieces included
RECURSIVE split(_, _)
split(s, sep) ==
  IF \E i \in 1..Len(s) : s[i] = sep
  THEN LET i == CHOOSE k \in 1..Len(s) :
                  /\ s[k] = sep
                  /\ \A j \in 1..(k - 1) : s[j] # sep
       IN <<SubSeq(s, 1, i - 1)>> \o split(SubSeq(s, i + 1, Len(s)), sep)
  ELSE <<s>>

\* parts.join('/')
RECURSIVE join(_, _)
join(parts, sep) ==
  IF Len(parts) = 0 THEN <<>>
  ELSE IF Len(parts) = 1 THEN parts[1]
  ELSE parts[1] \o <<sep>> \o join(Tail(parts), sep)

\* parts.slice(-n) for 1 <= n <= parts.length
sliceLast(parts, n) == SubSeq(parts, Len(parts) - n + 1, Len(parts))

(***************************************************************************)
(* Path matcher                                                            *)
(***************************************************************************)
FilePrefix2 == <<"f", "i", "l", "e", ":", "/", "/">>
FilePrefix1 == <<"f", "i", "l", "e", ":">>

normalizePath(filePath) ==
  toLowerCase(
    removePrefix(
      removePrefix(
        replaceBackslashes(
          removePrefix(removePrefix(filePath, FilePrefix2), FilePrefix1)),
        <<".", "/">>),
      <<"/">>))

\* the match before the boundary fix: any suffix is accepted
isSameFeaturePathNoBoundary(fullPath, relativePath) ==
  LET normalizedFull == normalizePath(fullPath)
      normalizedRelative == normalizePath(relativePath)
  IN endsWith(normalizedFull, normalizedRelative)

\* the third rule accepts on the filename alone
isSameFeaturePathByFilename(fullPath, relativePath) ==
  LET normalizedFull == normalizePath(fullPath)
      normalizedRelative == normalizePath(relativePath)
      fullPathParts == split(normalizedFull, "/")
      relativePathParts == split(normalizedRelative, "/")
  IN IF normalizedFull = normalizedRelative THEN TRUE
     ELSE IF endsWith(normalizedFull, <<"/">> \o normalizedRelative) THEN TRUE
     ELSE fullPathParts[Len(fullPathParts)]
            = relativePathParts[Len(relativePathParts)]

isSameFeaturePath(fullPath, relativePath) ==
  LET normalizedFull == normalizePath(fullPath)
      normalizedRelative == normalizePath(relativePath)
      fullPathParts == split(normalizedFull, "/")
      relativePathParts == split(normalizedRelative, "/")
  IN IF normalizedFull = normalizedRelative THEN TRUE
     ELSE IF endsWith(normalizedFull, <<"/">> \o normalizedRelative) THEN TRUE
     ELSE IF fullPathParts[Len(fullPathParts)]
               # relativePathParts[Len(relativePathParts)] THEN FALSE
     ELSE IF Len(fullPathParts) >= Len(relativePathParts)
          THEN join(sliceLast(fullPathParts, Len(relativePathParts)), "/")
                 = normalizedRelative
     ELSE FALSE

(***************************************************************************)
(* Report entries                                                          *)
(*   hook     [location, hasResult, status, error_message]                 *)
(*   step     [keyword, name, line, hasResult, status, error_message]      *)
(*   scenario [type, name, line, before, steps, after]                     *)
(*   feature  [uri, id, elements]                                          *)
(* An absent string field is the empty string "", which the code's         *)
(* `x || default` treats like an absent one.                               *)
(***************************************************************************)
Undefined == [undefined |-> TRUE]

\* a || b on strings
orElse(a, b) == IF a # "" THEN a ELSE b

\* only the status 'failed' counts as a hook failure
hookNotPassedOnlyFailed(hook) == hook.hasResult /\ hook.status = "failed"

\* hook.result && hook.result.status !== 'passed'
hookNotPassed(hook) == hook.hasResult /\ hook.status # "passed"

\* for (const hook of hooks) { if (...) { ...; break; } }: the hook acted on
firstNotPassedHook(hooks) ==
  IF \E i \in 1..Len(hooks) : hookNotPassed(hooks[i])
  THEN CHOOSE i \in 1..Len(hooks) :
         /\ hookNotPassed(hooks[i])
         /\ \A j \in 1..(i - 1) : ~hookNotPassed(hooks[j])
  ELSE 0

hookErrorMessage(hook) ==
  <<"Hook Location: ", orElse(hook.location, "Unknown location"), "\n\n">>
    \o (IF hook.error_message # ""
        THEN <<hook.error_message>>
        ELSE <<"Hook failed with status: ", hook.status>>)

\* step?.result?.status || 'no result'
stepStatusOf(step) ==
  IF step.hasResult THEN orElse(step.status, "no result") ELSE "no result"

\* step.result?.error_message || `Step ${stepStatus}`
stepErrorMessage(step) ==
  IF step.hasResult /\ step.error_message # ""
  THEN <<step.error_message>>
  ELSE <<"Step ", stepStatusOf(step)>>

\* stepKeyword.trim()
trim(keyword) ==
  IF keyword = "Given " THEN "Given"
  ELSE IF keyword = "When " THEN "When"
  ELSE IF keyword = "Then " THEN "Then"
  ELSE keyword

\* a skipped step is reported as the failure (the scan does not continue)
RECURSIVE stepLoopNoSkip(_, _, _, _)
stepLoopNoSkip(scenario, i, scenarioPassed, failedStep) ==
  IF i > Len(scenario.steps)
  THEN [scenarioPassed |-> scenarioPassed, failedStep |-> failedStep]
  ELSE LET step == scenario.steps[i]
           stepStatus == stepStatusOf(step)
       IN IF stepStatus = "passed"
          THEN stepLoopNoSkip(scenario, i + 1, scenarioPassed, failedStep)
          ELSE [scenarioPassed |-> FALSE,
                failedStep |->
                  [name |-> <<trim(step.keyword), " ",
                              orElse(step.name, "Unknown step")>>,
                   errorMessage |-> stepErrorMessage(step),
                   line |-> IF step.line # 0 THEN step.line
                            ELSE scenario.line]]

\* the loop over scenario.steps of parseResultFileForFeature, from step i
RECURSIVE stepLoop(_, _, _, _)
stepLoop(scenario, i, scenarioPassed, failedStep) ==
  IF i > Len(scenario.steps)
  THEN [scenarioPassed |-> scenarioPassed, failedStep |-> failedStep]
  ELSE LET step == scenario.steps[i]
           stepStatus == stepStatusOf(step)
       IN IF stepStatus = "passed"
          THEN stepLoop(scenario, i + 1, scenarioPassed, failedStep)
          ELSE IF stepStatus = "skipped"
          THEN stepLoop(scenario, i + 1, FALSE, failedStep)
          ELSE [scenarioPassed |-> FALSE,
                failedStep |->
                  [name |-> <<trim(step.keyword), " ",
                              orElse(step.name, "Unknown step")>>,
                   errorMessage |-> stepErrorMessage(step),
                   line |-> IF step.line # 0 THEN step.line
                            ELSE scenario.line]]

NoFailure == [scenarioPassed |-> TRUE, failedStep |-> Undefined]

\* scenario.type === 'background' is never true: backgrounds are classified
isBackgroundNever(scenario) == FALSE

\* scenario.type === 'background'
isBackground(scenario) == scenario.type = "background"

\* the steps are looked at before the Before hooks
checkBeforeHooksAfterSteps(scenario) ==
  LET r == stepLoop(scenario, 1, TRUE, Undefined)
      h == firstNotPassedHook(scenario.before)
  IN IF r.failedStep # Undefined THEN r
     ELSE IF h = 0 THEN NoFailure
     ELSE [scenarioPassed |-> FALSE,
           failedStep |-> [name |-> <<"Before Hook Failed">>,
                           errorMessage |-> hookErrorMessage(scenario.before[h]),
                           line |-> scenario.line]]

\* First check Before hooks
checkBeforeHooks(scenario) ==
  LET h == firstNotPassedHook(scenario.before)
  IN IF h = 0 THEN NoFailure
     ELSE [scenarioPassed |-> FALSE,
           failedStep |-> [name |-> <<"Before Hook Failed">>,
                           errorMessage |-> hookErrorMessage(scenario.before[h]),
                           line |-> scenario.line]]

\* scenario.steps.every(step => step?.result?.status === 'skipped')
allStepsSkipped(scenario) ==
  \A i \in 1..Len(scenario.steps) :
    scenario.steps[i].hasResult /\ scenario.steps[i].status = "skipped"

\* the all-skipped failure is reported at the first step's line
checkStepsSetupAtStep(scenario, st) ==
  IF st.failedStep = Undefined /\ Len(scenario.steps) > 0
  THEN LET r == stepLoop(scenario, 1, st.scenarioPassed, st.failedStep)
       IN IF r.failedStep = Undefined /\ allStepsSkipped(scenario)
          THEN [scenarioPassed |-> FALSE,
                failedStep |->
                  [name |-> <<"Scenario Setup Error">>,
                   errorMessage |-> <<"All steps were skipped. Check for errors in @Before hooks or step definitions.">>,
                   line |-> scenario.steps[1].line]]
          ELSE r
  ELSE IF st.failedStep = Undefined /\ Len(scenario.steps) = 0
  THEN [scenarioPassed |-> FALSE,
        failedStep |-> [name |-> <<"Empty Scenario">>,
                        errorMessage |-> <<"Scenario has no steps">>,
                        line |-> scenario.line]]
  ELSE st

\* the empty scenario falls under the all-skipped rule (every() of no steps)
checkStepsEmptyAsSetup(scenario, st) ==
  IF st.failedStep = Undefined
  THEN LET r == stepLoop(scenario, 1, st.scenarioPassed, st.failedStep)
       IN IF r.failedStep = Undefined /\ allStepsSkipped(scenario)
          THEN [scenarioPassed |-> FALSE,
                failedStep |->
                  [name |-> <<"Scenario Setup Error">>,
                   errorMessage |-> <<"All steps were skipped. Check for errors in @Before hooks or step definitions.">>,
                   line |-> scenario.line]]
          ELSE r
  ELSE st

\* a skipped step without a failing step leaves the scenario passed
checkStepsSkippedPass(scenario, st) ==
  IF st.failedStep = Undefined /\ Len(scenario.steps) > 0
  THEN LET r == stepLoop(scenario, 1, st.scenarioPassed, st.failedStep)
       IN IF r.failedStep = Undefined /\ allStepsSkipped(scenario)
          THEN [scenarioPassed |-> FALSE,
                failedStep |->
                  [name |-> <<"Scenario Setup Error">>,
                   errorMessage |-> <<"All steps were skipped. Check for errors in @Before hooks or step definitions.">>,
                   line |-> scenario.line]]
          ELSE IF r.failedStep = Undefined THEN st
          ELSE r
  ELSE IF st.failedStep = Undefined /\ Len(scenario.steps) = 0
  THEN [scenarioPassed |-> FALSE,
        failedStep |-> [name |-> <<"Empty Scenario">>,
                        errorMessage |-> <<"Scenario has no steps">>,
                        line |-> scenario.line]]
  ELSE st

\* Then check steps - only if no hook failure; the all-skipped and the
\* empty-scenario rules
checkSteps(scenario, st) ==
  IF st.failedStep = Undefined /\ Len(scenario.steps) > 0
  THEN LET r == stepLoop(scenario, 1, st.scenarioPassed, st.failedStep)
       IN IF r.failedStep = Undefined /\ allStepsSkipped(scenario)
          THEN [scenarioPassed |-> FALSE,
                failedStep |->
                  [name |-> <<"Scenario Setup Error">>,
                   errorMessage |-> <<"All steps were skipped. Check for errors in @Before hooks or step definitions.">>,
                   line |-> scenario.line]]
          ELSE r
  ELSE IF st.failedStep = Undefined /\ Len(scenario.steps) = 0
  THEN [scenarioPassed |-> FALSE,
        failedStep |-> [name |-> <<"Empty Scenario">>,
                        errorMessage |-> <<"Scenario has no steps">>,
                        line |-> scenario.line]]
  ELSE st

\* the After hook failure replaces the failure recorded before it
checkAfterHooksOverride(scenario, st) ==
  LET h == firstNotPassedHook(scenario.after)
  IN IF h = 0 THEN st
     ELSE [scenarioPassed |-> FALSE,
           failedStep |-> [name |-> <<"After Hook Failed">>,
                           errorMessage |-> hookErrorMessage(scenario.after[h]),
                           line |-> scenario.line]]

\* Check After hooks
checkAfterHooks(scenario, st) ==
  LET h == firstNotPassedHook(scenario.after)
  IN IF h = 0 THEN st
     ELSE [scenarioPassed |-> FALSE,
           failedStep |->
             IF st.failedStep = Undefined
             THEN [name |-> <<"After Hook Failed">>,
                   errorMessage |-> hookErrorMessage(scenario.after[h]),
                   line |-> scenario.line]
             ELSE st.failedStep]

\* the body of the loop over feature.elements: one ScenarioResult
classifyScenario(scenario) ==
  LET st == checkAfterHooks(scenario,
              checkSteps(scenario, checkBeforeHooks(scenario)))
  IN [name |-> orElse(scenario.name, "Unnamed scenario"),
      line |-> scenario.line,
      passed |-> st.scenarioPassed,
      failedStep |-> st.failedStep]

\* feature.uri || feature.id || ''
featurePathOf(feature) == IF feature.uri # <<>> THEN feature.uri ELSE feature.id

\* with no matching feature the first feature of the report is taken
firstMatchOrFirst(results, featureFilePath) ==
  IF \E i \in 1..Len(results) :
       isSameFeaturePath(featureFilePath, featurePathOf(results[i]))
  THEN CHOOSE i \in 1..Len(results) :
         /\ isSameFeaturePath(featureFilePath, featurePathOf(results[i]))
         /\ \A j \in 1..(i - 1) :
              ~isSameFeaturePath(featureFilePath, featurePathOf(results[j]))
  ELSE IF Len(results) > 0 THEN 1 ELSE 0

\* index of the first feature of results that matches, 0 when none does
firstMatch(results, featureFilePath) ==
  IF \E i \in 1..Len(results) :
       isSameFeaturePath(featureFilePath, featurePathOf(results[i]))
  THEN CHOOSE i \in 1..Len(results) :
         /\ isSameFeaturePath(featureFilePath, featurePathOf(results[i]))
         /\ \A j \in 1..(i - 1) :
              ~isSameFeaturePath(featureFilePath, featurePathOf(results[j]))
  ELSE 0

RECURSIVE classifyElements(_)
classifyElements(elements) ==
  IF elements = <<>> THEN <<>>
  ELSE IF isBackground(Head(elements)) THEN classifyElements(Tail(elements))
  ELSE <<classifyScenario(Head(elements))>> \o classifyElements(Tail(elements))

parseResultFileForFeature(resultFile, featureFilePath) ==
  IF ~resultFile.isValid THEN <<>>
  ELSE LET m == firstMatch(resultFile.results, featureFilePath)
       IN IF m = 0 THEN <<>>
          ELSE classifyElements(resultFile.results[m].elements)

\* the per-scenario check of hasFeatureFailures
scenarioPassedForFeature(scenario) ==
  LET beforeOk == firstNotPassedHook(scenario.before) = 0
      afterOk == firstNotPassedHook(scenario.after) = 0
      stepsOk == \A i \in 1..Len(scenario.steps) :
                   /\ scenario.steps[i].hasResult
                   /\ scenario.steps[i].status = "passed"
  IN beforeOk /\ afterOk /\ stepsOk

hasFeatureFailures(resultFile, featureFilePath) ==
  IF ~resultFile.isValid THEN TRUE
  ELSE LET m == firstMatch(resultFile.results, featureFilePath)
       IN IF m = 0 THEN FALSE
          ELSE \E i \in 1..Len(resultFile.results[m].elements) :
                 /\ ~isBackground(resultFile.results[m].elements[i])
                 /\ ~scenarioPassedForFeature(resultFile.results[m].elements[i])

(***************************************************************************)
(* Test tree: createOrUpdateTest builds one feature item per file, with    *)
(* the ids  <path>:scenario:<line>[:example:<line>]  and  <path>:rule:<n>  *)
(***************************************************************************)
DigitChars == <<"0", "1", "2", "3", "4", "5", "6", "7", "8", "9">>

\* `${lineNumber}`
RECURSIVE digits(_)
digits(n) ==
  IF n < 10 THEN <<DigitChars[n + 1]>>
  ELSE digits(n \div 10) \o <<DigitChars[(n % 10) + 1]>>

isDigit(c) == \E k \in 1..10 : DigitChars[k] = c

digitValue(c) == (CHOOSE k \in 1..10 : DigitChars[k] = c) - 1

NaN == -1

\* parseInt(s, 10): the leading digits of s, NaN when there is none
RECURSIVE parseIntFrom(_, _, _)
parseIntFrom(s, i, acc) ==
  IF i > Len(s) \/ ~isDigit(s[i]) THEN acc
  ELSE parseIntFrom(s, i + 1, acc * 10 + digitValue(s[i]))

parseInt(s) ==
  IF Len(s) = 0 \/ ~isDigit(s[1]) THEN NaN ELSE parseIntFrom(s, 1, 0)

ColonChunks == {":", ":scenario:", ":example:", ":rule:"}

\* s.split(':')[0]: the text before the first colon
beforeFirstColon(s) ==
  IF \E i \in 1..Len(s) : s[i] \in ColonChunks
  THEN SubSeq(s, 1, (CHOOSE i \in 1..Len(s) :
                       /\ s[i] \in ColonChunks
                       /\ \A j \in 1..(i - 1) : s[j] \notin ColonChunks) - 1)
  ELSE s

\* a range is the 0-based line it starts at
exampleItem(scenarioId, example, uri) ==
  [id |-> scenarioId \o <<":example:">> \o digits(example),
   uri |-> uri,
   range |-> example - 1,
   children |-> <<>>]

createScenarioItem(featureId, scenario, uri) ==
  LET scenarioId == featureId \o <<":scenario:">> \o digits(scenario.lineNumber)
  IN [id |-> scenarioId,
      uri |-> uri,
      range |-> scenario.lineNumber - 1,
      children |-> [k \in 1..Len(scenario.examples) |->
                      exampleItem(scenarioId, scenario.examples[k], uri)]]

createRuleItem(featureId, rule, uri) ==
  [id |-> featureId \o <<":rule:">> \o digits(rule.lineNumber),
   uri |-> uri,
   range |-> rule.lineNumber - 1,
   children |-> [k \in 1..Len(rule.scenarios) |->
                   createScenarioItem(featureId, rule.scenarios[k], uri)]]

\* featureId = path.normalize(uri.fsPath); the paths used are normal already
createOrUpdateTest(uri, featureInfo) ==
  [id |-> uri,
   uri |-> uri,
   range |-> featureInfo.lineNumber - 1,
   children |->
     [k \in 1..Len(featureInfo.scenarios) |->
        createScenarioItem(uri, featureInfo.scenarios[k], uri)]
     \o [k \in 1..Len(featureInfo.rules) |->
           createRuleItem(uri, featureInfo.rules[k], uri)]]

\* the item and all its descendants
RECURSIVE descendants(_, _)
descendants(item, depth) ==
  {item} \cup
    (IF depth = 0 THEN {}
     ELSE UNION {descendants(item.children[k], depth - 1) :
                   k \in 1..Len(item.children)})

(***************************************************************************)
(* Painting: run maps the id of a test item to what the run recorded       *)
(***************************************************************************)
NotRun == [state |-> "none"]
Passed == [state |-> "passed"]
Failed(message, location) ==
  [state |-> "failed", message |-> message, location |-> location]

\* the text chunks used that hold another text within them
Substrings ==
  {<<"Before Hook Failed", "Hook Failed">>,
   <<"After Hook Failed", "Hook Failed">>,
   <<"the Hook Failed banner is shown", "Hook Failed">>}

\* chunk.includes(needle) for the text chunks used
chunkIncludes(chunk, needle) ==
  \/ chunk = needle
  \/ <<chunk, needle>> \in Substrings

\* name.includes(needle)
includes(name, needle) == \E i \in 1..Len(name) : chunkIncludes(name[i], needle)

\* scenarioResults.find(r => r.line === line): index, 0 when not found
find(scenarioResults, line) ==
  IF \E i \in 1..Len(scenarioResults) : scenarioResults[i].line = line
  THEN CHOOSE i \in 1..Len(scenarioResults) :
         /\ scenarioResults[i].line = line
         /\ \A j \in 1..(i - 1) : scenarioResults[j].line # line
  ELSE 0

\* what run.passed / run.failed records for the matched scenarioResult
verdictOf(scenarioResult) ==
  IF scenarioResult.passed THEN Passed
  ELSE IF scenarioResult.failedStep # Undefined
  THEN LET isScenarioLevelError ==
             \/ includes(scenarioResult.failedStep.name, "Hook Failed")
             \/ includes(scenarioResult.failedStep.name, "Scenario Setup Error")
             \/ includes(scenarioResult.failedStep.name, "Empty Scenario")
       IN Failed(scenarioResult.failedStep.name \o <<"\n\n">>
                   \o scenarioResult.failedStep.errorMessage,
                 IF isScenarioLevelError
                 THEN scenarioResult.line - 1
                 ELSE scenarioResult.failedStep.line - 1)
  ELSE Failed(<<"Scenario failed">>, NaN)

\* the body of items.forEach for one child, without the recursion; r holds for
\* each node the verdict of the last run.passed or run.failed call made for
\* it, which is what the code hands over: what the TestRun keeps of earlier
\* calls for the node is the editor's and is not part of r
paintChild(child, scenarioResults, r) ==
  LET childIdParts == split(child.id, ":scenario:")
  IN IF Len(childIdParts) > 1
     THEN LET childScenarioLine == parseInt(beforeFirstColon(childIdParts[2]))
              k == find(scenarioResults, childScenarioLine)
          IN IF k # 0
             THEN [r EXCEPT ![child.id] = verdictOf(scenarioResults[k])]
             ELSE r
     ELSE r

RECURSIVE updateItemsRecursively(_, _, _)
updateItemsRecursively(items, scenarioResults, r) ==
  IF items = <<>> THEN r
  ELSE LET child == Head(items)
           r1 == paintChild(child, scenarioResults, r)
           r2 == IF Len(child.children) > 0
                 THEN updateItemsRecursively(child.children, scenarioResults, r1)
                 ELSE r1
       IN updateItemsRecursively(Tail(items), scenarioResults, r2)

markChildrenFromResults(featureItem, r, resultFile) ==
  updateItemsRecursively(featureItem.children,
                         parseResultFileForFeature(resultFile, featureItem.uri),
                         r)

(***************************************************************************)
(* The batch: what executeBatchTests records for a target, and the wait    *)
(* of runWithVSCode                                                        *)
(***************************************************************************)
Started == [state |-> "started"]

\* run.failed(item, messages) with the messages of getTestErrorMessages
FailedWith(messages) == [state |-> "failed", messages |-> messages]

\* one TestMessage of getTestErrorMessages
testErrorMessage(scenarioResult) ==
  LET isScenarioLevelError ==
        \/ includes(scenarioResult.failedStep.name, "Hook Failed")
        \/ includes(scenarioResult.failedStep.name, "Scenario Setup Error")
        \/ includes(scenarioResult.failedStep.name, "Empty Scenario")
  IN [message |-> <<"Scenario: ", scenarioResult.name, " (line ">>
                    \o digits(scenarioResult.line) \o <<")\n\n">>
                    \o scenarioResult.failedStep.name \o <<"\n\n">>
                    \o scenarioResult.failedStep.errorMessage,
      location |-> IF isScenarioLevelError
                   THEN scenarioResult.line - 1
                   ELSE scenarioResult.failedStep.line - 1]

getTestErrorMessages(file, uri) ==
  LET failures ==
        SelectSeq(parseResultFileForFeature(file, uri),
                  LAMBDA sr : ~sr.passed /\ sr.failedStep # Undefined)
  IN [k \in 1..Len(failures) |-> testErrorMessage(failures[k])]

\* a target without failures is left as it is: only failures are recorded
processTargetFailuresOnly(item, r, file) ==
  LET r1 == IF Len(item.children) > 0
            THEN markChildrenFromResults(item, r, file)
            ELSE r
      featureFailed == hasFeatureFailures(file, item.uri)
      errorMessages == getTestErrorMessages(file, item.uri)
  IN IF featureFailed
     THEN [r1 EXCEPT ![item.id] =
             IF Len(errorMessages) > 0
             THEN FailedWith(errorMessages)
             ELSE Failed(<<"Test failed">>, NaN)]
     ELSE r1

\* the body of the loop over testItems, after the cancellation check
processTarget(item, r, file) ==
  LET r1 == IF Len(item.children) > 0
            THEN markChildrenFromResults(item, r, file)
            ELSE r
      featureFailed == hasFeatureFailures(file, item.uri)
      errorMessages == getTestErrorMessages(file, item.uri)
  IN [r1 EXCEPT ![item.id] =
        IF featureFailed
        THEN IF Len(errorMessages) > 0
             THEN FailedWith(errorMessages)
             ELSE Failed(<<"Test failed">>, NaN)
        ELSE Passed]

\* No result file - mark all as failed
markAllFailed(items, r) ==
  [id \in DOMAIN r |->
     IF \E k \in 1..Len(items) : items[k].id = id
     THEN Failed(<<"Test failed. Check ", "terminal", " for details.">>, NaN)
     ELSE r[id]]

\* run.started(item) for every item
markAllStarted(items, r) ==
  [id \in DOMAIN r |->
     IF \E k \in 1..Len(items) : items[k].id = id THEN Started ELSE r[id]]

\* checkCucumberResults: every element of the report has steps, all passed
checkCucumberResults(file) ==
  /\ file.isValid
  /\ \A i \in 1..Len(file.results) :
       \A k \in 1..Len(file.results[i].elements) :
         LET steps == file.results[i].elements[k].steps
         IN /\ Len(steps) > 0
            /\ \A j \in 1..Len(steps) :
                 steps[j].hasResult /\ steps[j].status = "passed"

\* the result file after cleanupResultFile
Unlinked == [isValid |-> FALSE, results |-> <<>>, content |-> "missing"]

Pending == [state |-> "pending"]

\* a later resolve replaces the value of the promise
resolveAgain(p, value) == [state |-> "resolved", value |-> value]

\* resolve(value): settles a pending promise, does nothing to a settled one
resolve(p, value) ==
  IF p.state = "pending" THEN [state |-> "resolved", value |-> value] ELSE p

\* path.join(projectRoot, 'target', `.cucumber-result-${Date.now()}.json`)
ResultFileNames ==
  <<"target/.cucumber-result-0.json", "target/.cucumber-result-1.json">>

resultFileAt(t) == ResultFileNames[t + 1]

\* the path of the result file of a batch started at time 0
ResultFilePath == resultFileAt(0)

(***************************************************************************)
(* The invocation of a batch: the features to run, their addresses and the *)
(* name of the launch configuration                                        *)
(***************************************************************************)
\* the first workspace folder
WorkspaceFolder == <<"/", "w">>

\* path.relative(from, to) for a file below the folder from
relative(from, to) == removePrefix(to, from \o <<"/">>)

\* path.basename(p, '.feature'); the paths used have no extension
basename(p) == split(replaceBackslashes(p), "/")[Len(split(replaceBackslashes(p), "/"))]

\* the FeatureToRun of a test item, its lines read from the id of the item;
\* a line that is undefined is 0, which `if (f.lineNumber)` treats alike
featureToRun(item) ==
  LET ruleParts == split(item.id, ":rule:")
      idParts == split(item.id, ":scenario:")
      exampleParts == IF Len(idParts) > 1
                      THEN split(idParts[2], ":example:")
                      ELSE <<>>
  IN [uri |-> item.uri,
      relativePath |-> relative(WorkspaceFolder, item.uri),
      lineNumber |-> IF Len(ruleParts) > 1 THEN parseInt(ruleParts[2])
                     ELSE IF Len(idParts) > 1 THEN parseInt(exampleParts[1])
                     ELSE 0,
      exampleLine |-> IF Len(ruleParts) <= 1 /\ Len(idParts) > 1
                         /\ Len(exampleParts) > 1
                      THEN parseInt(exampleParts[2])
                      ELSE 0]

\* the features of the targets, in the order of the targets
featuresOf(items) == [k \in 1..Len(items) |-> featureToRun(items[k])]

\* the line of the scenario is used also when the target is an example row
cucumberPathScenarioLine(f) ==
  replaceBackslashes(f.relativePath)
    \o (IF f.lineNumber > 0 THEN <<":">> \o digits(f.lineNumber)
        ELSE <<>>)

\* the address of one feature to run: path, path:exampleLine or path:line
cucumberPath(f) ==
  replaceBackslashes(f.relativePath)
    \o (IF f.exampleLine > 0 THEN <<":">> \o digits(f.exampleLine)
        ELSE IF f.lineNumber > 0 THEN <<":">> \o digits(f.lineNumber)
        ELSE <<>>)

\* features.map(...).join(' ')
cucumberPaths(features) ==
  join([k \in 1..Len(features) |-> cucumberPath(features[k])], " ")

\* the name of the launch configuration of a run without debug or coverage
configName(features) ==
  IF Len(features) = 1
  THEN IF features[1].exampleLine > 0
       THEN <<"Cucumber: ", "Example at line ">> \o digits(features[1].exampleLine)
       ELSE IF features[1].lineNumber > 0
       THEN <<"Cucumber: ", "Scenario at line ">> \o digits(features[1].lineNumber)
       ELSE <<"Cucumber: ">> \o basename(features[1].relativePath)
  ELSE <<"Cucumber: ", "All Features (">> \o digits(Len(features)) \o <<" files)">>

\* the debug configuration handed to vscode.debug.startDebugging
debugConfiguration(features, path) ==
  [name |-> configName(features),
   args |-> cucumberPaths(features),
   resultFile |-> path]

(***************************************************************************)
(* Inputs                                                                  *)
(***************************************************************************)
\* the workspace is /w; a file has its fsPath and its path relative to /w
FileA == [fsPath |-> <<"/", "w", "/", "d", "/", "a">>,
          relativePath |-> <<"d", "/", "a">>]
FileB == [fsPath |-> <<"/", "w", "/", "e", "/", "d", "/", "a">>,
          relativePath |-> <<"e", "/", "d", "/", "a">>]
FileX == [fsPath |-> <<"/", "w", "/", "d", "/", "x", "a">>,
          relativePath |-> <<"d", "/", "x", "a">>]
Files == {FileA, FileB, FileX}

\* a feature file copied into the build directory
FileT == [fsPath |-> <<"/", "w", "/", "t", "a", "r", "g", "e", "t", "/", "a">>,
          relativePath |-> <<"t", "a", "r", "g", "e", "t", "/", "a">>]

\* the files the file system watcher reports events of
WatchFiles == {FileA, FileX, FileT}

\* the values of Date.now() while batches are launched
Milliseconds == {0, 1}

\* every feature file has the same outline: the feature at line 1, a scenario
\* at line 5 and a rule
\* at line 8 holding a scenario outline at line 9 with an example at line 11
TheFeatureInfo ==
  [lineNumber |-> 1,
   scenarios |-> <<[lineNumber |-> 5, examples |-> <<>>]>>,
   rules |-> <<[lineNumber |-> 8,
                scenarios |-> <<[lineNumber |-> 9, examples |-> <<11>>]>>]>>]

ItemOf(file) == createOrUpdateTest(file.fsPath, TheFeatureInfo)
AllItems == UNION {descendants(ItemOf(f), 3) : f \in Files}
AllIds == {item.id : item \in AllItems}

\* the uri the report gives a file: file:<relative path>
UriOf(file) == FilePrefix1 \o file.relativePath

Hook(status, error_message) ==
  [location |-> "Hooks.setUp()", hasResult |-> TRUE,
   status |-> status, error_message |-> error_message]
HookNoResult ==
  [location |-> "Hooks.setUp()", hasResult |-> FALSE,
   status |-> "", error_message |-> ""]

Step(line, status, error_message) ==
  [keyword |-> "Given ", name |-> "a step", line |-> line, hasResult |-> TRUE,
   status |-> status, error_message |-> error_message]
StepNoResult(line) ==
  [keyword |-> "Given ", name |-> "a step", line |-> line, hasResult |-> FALSE,
   status |-> "", error_message |-> ""]

Element(type, line, before, steps, after) ==
  [type |-> type, name |-> "an element", line |-> line,
   before |-> before, steps |-> steps, after |-> after]

\* the elements of the reports of the correlation specification
PassedAt(line) ==
  Element("scenario", line, <<Hook("passed", "")>>,
          <<Step(line + 1, "passed", "")>>, <<>>)
FailedAt(line) ==
  Element("scenario", line, <<>>,
          <<Step(line + 1, "passed", ""), Step(line + 2, "failed", "boom")>>,
          <<>>)
BackgroundFailed ==
  Element("background", 3, <<>>, <<Step(4, "failed", "boom")>>, <<>>)

ElementLists ==
  {<<BackgroundFailed, PassedAt(5)>>,
   <<PassedAt(5), FailedAt(9)>>,
   <<FailedAt(5), PassedAt(9)>>}

FeatureEntries ==
  {[uri |-> UriOf(f), id |-> <<"f">>, elements |-> es] :
     f \in Files, es \in ElementLists}

\* a report names a file once
Reports ==
  UNION {{r \in [1..n -> FeatureEntries] :
            \A i, j \in 1..n : i # j => r[i].uri # r[j].uri} :
         n \in 0..MaxEntries}

(***************************************************************************)
(* State                                                                   *)
(***************************************************************************)
VARIABLES
  resultFile,   \* the report file: [isValid, results]
  run,          \* the test run: item id -> NotRun, Passed or Failed(..)
  marks,        \* the number of markChildrenFromResults calls of the run
  call,         \* the last function called and its arguments
  returned,     \* what that call returned
  testItems,    \* the targets of the batch, in order
  pc,           \* where executeBatchTests stands
  index,        \* the target the loop over testItems is at
  token,        \* token.isCancellationRequested
  session,      \* the debug session of the batch
  listener,     \* the termination listener is registered
  timer,        \* the timeout of the wait
  handler,      \* where the termination handler stands
  promise,      \* the promise runWithVSCode returns
  invocations,  \* the configurations handed to startDebugging, in order
  disk,         \* the feature files that exist
  watchedFiles, \* the files that have a node in the tree
  updateTimers, \* file -> the timer kept for it in the map, 0 when none
  liveTimers,   \* the timers set and neither cleared nor fired
  nextTimer,    \* the handle the next setTimeout returns
  updating,     \* the calls of createOrUpdateTest waiting for the document
  deleted,      \* the files whose last event was a delete
  handled,      \* the number of file events handled
  scans,        \* the calls of discoverTests, in order, and where each stands
  now,          \* Date.now(), in milliseconds
  batches,      \* batch -> its configuration, session, listener and wait
  reportFiles   \* path of a result file -> what the file holds

batchVars ==
  <<testItems, pc, index, token, session, listener, timer, handler, promise,
    invocations>>

watchVars ==
  <<disk, watchedFiles, updateTimers, liveTimers, nextTimer, updating,
    deleted, handled, scans>>

pairVars == <<now, batches, reportFiles>>

vars == <<resultFile, run, marks, call, returned, batchVars, watchVars,
          pairVars>>

NoCall == [fn |-> "none", state |-> "returned"]

NoPromise == [state |-> "none"]

\* no file event was handled yet and no feature file exists
WatchIdle ==
  /\ disk = {}
  /\ watchedFiles = {}
  /\ updateTimers = [f \in WatchFiles |-> 0]
  /\ liveTimers = {}
  /\ nextTimer = 1
  /\ updating = {}
  /\ deleted = {}
  /\ handled = 0
  /\ scans = <<>>

\* no file at the path of a result file: none was written, or it was
\* unlinked
NotWritten == [writer |-> 0]

\* no batch was launched and no result file was written
PairIdle ==
  /\ now = 0
  /\ batches = <<>>
  /\ reportFiles = [p \in {resultFileAt(t) : t \in Milliseconds} |-> NotWritten]

\* no batch is under way
BatchIdle ==
  /\ pc = "idle"
  /\ index = 1
  /\ token = FALSE
  /\ session = "none"
  /\ listener = FALSE
  /\ timer = "none"
  /\ handler = "idle"
  /\ promise = NoPromise
  /\ invocations = <<>>
  /\ WatchIdle
  /\ PairIdle

InitRest ==
  /\ run = [id \in AllIds |-> NotRun]
  /\ marks = 0
  /\ call = NoCall
  /\ returned = FALSE
  /\ testItems = <<>>
  /\ BatchIdle

Init ==
  /\ resultFile \in {[isValid |-> TRUE, results |-> r] : r \in Reports}
  /\ InitRest

ParseResultFileForFeature(file) ==
  /\ call' = [fn |-> "parseResultFileForFeature", file |-> file,
              state |-> "returned"]
  /\ returned' = parseResultFileForFeature(resultFile, file.fsPath)
  /\ UNCHANGED <<watchVars, pairVars, resultFile, run, marks, batchVars>>

HasFeatureFailures(file) ==
  /\ call' = [fn |-> "hasFeatureFailures", file |-> file,
              state |-> "returned"]
  /\ returned' = hasFeatureFailures(resultFile, file.fsPath)
  /\ UNCHANGED <<watchVars, pairVars, resultFile, run, marks, batchVars>>

MarkChildrenFromResults(featureItem) ==
  /\ marks < MaxMarks
  /\ Len(featureItem.children) > 0
  /\ marks' = marks + 1
  /\ call' = [fn |-> "markChildrenFromResults", item |-> featureItem.id,
              state |-> "returned"]
  /\ returned' = FALSE
  /\ run' = markChildrenFromResults(featureItem, run, resultFile)
  /\ UNCHANGED <<watchVars, pairVars, resultFile, batchVars>>

Next ==
  \/ \E file \in Files : ParseResultFileForFeature(file)
  \/ \E file \in Files : HasFeatureFailures(file)
  \/ \E featureItem \in AllItems : MarkChildrenFromResults(featureItem)

Spec == Init /\ [][Next]_vars

(***************************************************************************)
(* The two readers of the report on their own: every report, every file   *)
(***************************************************************************)
NextLookup ==
  \/ \E file \in Files : ParseResultFileForFeature(file)
  \/ \E file \in Files : HasFeatureFailures(file)

SpecLookup == Init /\ [][NextLookup]_vars

(***************************************************************************)
(* The path matcher on its own: every pair of paths of a bounded set       *)
(***************************************************************************)
Names == {<<"a">>, <<"x", "a">>, <<"d">>}
Prefixes == {<<>>, FilePrefix1, <<"/">>, <<".", "/">>}
Separators == {"/", "\\"}

Paths ==
  {prefix \o join(segments, separator) :
     prefix \in Prefixes, separator \in Separators,
     segments \in UNION {[1..n -> Names] : n \in 1..MaxSegments}}
  \cup {FilePrefix2 \o FileA.fsPath, <<"D", "/", "A">>, <<"X", "A">>,
        <<"F", "I", "L", "E", ":", "D", "/", "A">>}

\* the arguments are drawn, the call is still to be made
InitPath ==
  /\ resultFile = [isValid |-> TRUE, results |-> <<>>]
  /\ run = [id \in AllIds |-> NotRun]
  /\ marks = 0
  /\ call \in {[fn |-> "isSameFeaturePath",
                 fullPath |-> fullPath, relativePath |-> relativePath,
                 state |-> "pending"] :
                 fullPath \in Paths, relativePath \in Paths}
  /\ returned = FALSE
  /\ testItems = <<>>
  /\ BatchIdle

IsSameFeaturePath ==
  /\ call.fn = "isSameFeaturePath"
  /\ call.state = "pending"
  /\ call' = [call EXCEPT !.state = "returned"]
  /\ returned' = isSameFeaturePath(call.fullPath, call.relativePath)
  /\ UNCHANGED <<watchVars, pairVars, resultFile, run, marks, batchVars>>

NextPath == IsSameFeaturePath

SpecPath == InitPath /\ [][NextPath]_vars

(***************************************************************************)
(* The classification on its own: the report holds one entry, of FileA,    *)
(* with one scenario of a bounded set, or a background of that set         *)
(* followed by a passed scenario                                           *)
(***************************************************************************)
ElementLine == 5
OtherLine == 20

\* the steps of long step lists
CoreSteps(line) ==
  {Step(line, "passed", ""), Step(line, "skipped", ""),
   Step(line, "failed", "AssertionError")}

\* the steps of short step lists
AllSteps(line) ==
  CoreSteps(line) \cup
  {Step(line, "undefined", ""), Step(line, "pending", "PendingException"),
   Step(line, "ambiguous", ""), Step(line, "failed", ""), StepNoResult(line)}

StepLists ==
  UNION {{steps \in [1..n -> UNION {CoreSteps(ElementLine + k) : k \in 1..n}] :
            \A k \in 1..n : steps[k].line = ElementLine + k} :
         n \in 0..MaxSteps}
  \cup
  UNION {{steps \in [1..n -> UNION {AllSteps(ElementLine + k) : k \in 1..n}] :
            \A k \in 1..n : steps[k].line = ElementLine + k} :
         n \in 0..2}

\* the hooks of long hook lists
CoreHooks == {Hook("passed", ""), Hook("failed", "NullPointerException")}

\* the hooks of short hook lists
AllHooks == CoreHooks \cup {Hook("skipped", ""), HookNoResult}

HookLists ==
  UNION {[1..n -> CoreHooks] : n \in 0..MaxHooks}
  \cup UNION {[1..n -> AllHooks] : n \in 0..1}

ScenarioElements ==
  {Element("scenario", ElementLine, before, steps, after) :
     before \in HookLists, steps \in StepLists, after \in HookLists}

AsBackground(scenario) == [scenario EXCEPT !.type = "background"]

ClassifyReports ==
  {<<[uri |-> UriOf(FileA), id |-> <<"f">>, elements |-> <<scenario>>]>> :
     scenario \in ScenarioElements}
  \cup
  {<<[uri |-> UriOf(FileA), id |-> <<"f">>,
      elements |-> <<AsBackground(scenario), PassedAt(OtherLine)>>]>> :
     scenario \in {e \in ScenarioElements : Len(e.steps) <= 1}}

InitClassify ==
  /\ resultFile \in {[isValid |-> TRUE, results |-> r] : r \in ClassifyReports}
  /\ InitRest

NextClassify ==
  \/ ParseResultFileForFeature(FileA)
  \/ HasFeatureFailures(FileA)

SpecClassify == InitClassify /\ [][NextClassify]_vars

(***************************************************************************)
(* The painting on its own: the tree of FileA and a report with one entry, *)
(* of FileA, holding at each line of the tree an element of a bounded set  *)
(* or none                                                                 *)
(***************************************************************************)
NamedStep(line, name, status, error_message) ==
  [Step(line, status, error_message) EXCEPT !.name = name]

BeforeHookFailedAt(line) ==
  Element("scenario", line, <<Hook("failed", "NullPointerException")>>,
          <<Step(line + 1, "skipped", "")>>, <<>>)
AfterHookFailedAt(line) ==
  Element("scenario", line, <<>>, <<Step(line + 1, "passed", "")>>,
          <<Hook("failed", "NullPointerException")>>)
AllSkippedAt(line) ==
  Element("scenario", line, <<>>,
          <<Step(line + 1, "skipped", ""), Step(line + 2, "skipped", "")>>, <<>>)
EmptyAt(line) == Element("scenario", line, <<>>, <<>>, <<>>)
PassedThenSkippedAt(line) ==
  Element("scenario", line, <<>>,
          <<Step(line + 1, "passed", ""), Step(line + 2, "skipped", "")>>, <<>>)
HookNameStepFailedAt(line) ==
  Element("scenario", line, <<>>,
          <<Step(line + 1, "passed", ""),
            NamedStep(line + 2, "the Hook Failed banner is shown",
                      "failed", "AssertionError")>>,
          <<>>)

ElementsAt(line) ==
  {PassedAt(line), FailedAt(line), BeforeHookFailedAt(line),
   AfterHookFailedAt(line), AllSkippedAt(line), EmptyAt(line),
   PassedThenSkippedAt(line), HookNameStepFailedAt(line)}

\* the lines of the scenario, the scenario outline and the example row
PaintLines == <<5, 9, 11>>

RECURSIVE PaintElementLists(_)
PaintElementLists(k) ==
  IF k > Len(PaintLines) THEN {<<>>}
  ELSE LET rest == PaintElementLists(k + 1)
       IN rest \cup {<<e>> \o es : e \in ElementsAt(PaintLines[k]), es \in rest}

PaintReports ==
  {<<[uri |-> UriOf(FileA), id |-> <<"f">>, elements |-> es]>> :
     es \in PaintElementLists(1)}

InitPaint ==
  /\ resultFile \in {[isValid |-> TRUE, results |-> r] : r \in PaintReports}
  /\ InitRest

NextPaint ==
  \E featureItem \in descendants(ItemOf(FileA), 3) :
    MarkChildrenFromResults(featureItem)

SpecPaint == InitPaint /\ [][NextPaint]_vars

(***************************************************************************)
(* The batch: executeBatchTests on a list of targets, the debug session,   *)
(* the termination handler and the timeout of runWithVSCode.  The call    *)
(* gives control back while the classpath is resolved, while startDebugging *)
(* answers and while the session runs; the awaits of the loop over the     *)
(* targets settle without leaving the turn, so the cancellation is         *)
(* requested while executeBatchTests waits.                                *)
(***************************************************************************)
MaxTargets == 2

\* a report file that cannot be used: never written, not JSON, not an array
Unusable(content) == [isValid |-> FALSE, results |-> <<>>, content |-> content]

BatchResultFiles ==
  {Unusable("missing"), Unusable("not JSON"), Unusable("not an array"),
   [isValid |-> TRUE, results |-> <<>>],
   [isValid |-> TRUE,
    results |-> <<[uri |-> UriOf(FileA), id |-> <<"f">>,
                   elements |-> <<PassedAt(5), FailedAt(9)>>]>>],
   [isValid |-> TRUE,
    results |-> <<[uri |-> UriOf(FileA), id |-> <<"f">>,
                   elements |-> <<PassedAt(5), PassedAt(9)>>],
                  [uri |-> UriOf(FileX), id |-> <<"f">>,
                   elements |-> <<FailedAt(5), PassedAt(9)>>]>>]}

\* the items a batch is asked to run: three features and, of the first, the
\* scenario, the rule, the scenario outline of the rule and its example row
BatchItems ==
  {ItemOf(FileA), ItemOf(FileB), ItemOf(FileX),
   ItemOf(FileA).children[1],
   ItemOf(FileA).children[2],
   ItemOf(FileA).children[2].children[1],
   ItemOf(FileA).children[2].children[1].children[1]}

\* the lists filterTestItems lets through: no item with one of its ancestors
TargetLists ==
  UNION {{items \in [1..n -> BatchItems] :
            \A i, j \in 1..n :
              i # j => items[i] \notin descendants(items[j], 3)} :
         n \in 0..MaxTargets}

InitBatch ==
  /\ resultFile \in BatchResultFiles
  /\ run = [id \in AllIds |-> NotRun]
  /\ marks = 0
  /\ call = NoCall
  /\ returned = FALSE
  /\ testItems \in TargetLists
  /\ BatchIdle

\* executeBatchTests up to its first await: the targets are marked started;
\* with no target it returns; else runCucumberTestBatch is called, which
\* waits for the glue path and the classpath of the project
ExecuteBatchTests ==
  /\ pc = "idle"
  /\ run' = markAllStarted(testItems, run)
  /\ pc' = IF Len(featuresOf(testItems)) = 0 THEN "done" ELSE "resolving"
  /\ UNCHANGED <<watchVars, pairVars, resultFile, marks, call, returned,
                 testItems, index, token, session, listener, timer, handler,
                 promise, invocations>>

\* no glue path was found and the user dismisses the box that asks for
\* one: runCucumberTestBatch returns a result without a result file, no
\* configuration is built, and executeBatchTests fails all the targets
GluePathNotSpecified ==
  /\ pc = "resolving"
  /\ pc' = "done"
  /\ run' = markAllFailed(testItems, run)
  /\ UNCHANGED <<watchVars, pairVars, resultFile, marks, call, returned,
                 testItems, index, token, session, listener, timer, handler,
                 promise, invocations>>

\* the glue path is known, found or typed by the user, and the classpath
\* has come: one configuration is built for all the targets and handed to
\* startDebugging, whose answer is awaited; the debugger launches the
\* session or refuses to
StartDebugging ==
  /\ pc = "resolving"
  /\ pc' = "starting"
  /\ invocations' =
       Append(invocations,
              debugConfiguration(featuresOf(testItems), ResultFilePath))
  /\ session' \in {"running", "refused"}
  /\ UNCHANGED <<watchVars, pairVars, resultFile, run, marks, call, returned,
                 testItems, index, token, listener, timer, handler, promise>>

\* startDebugging has answered: when the session was started the listener
\* for its end and the timeout are set and the wait begins, else the result
\* has no result file and executeBatchTests fails all the targets
StartDebuggingResolves ==
  /\ pc = "starting"
  /\ IF session # "refused"
     THEN /\ pc' = "awaiting"
          /\ listener' = TRUE
          /\ timer' = "armed"
          /\ promise' = Pending
          /\ run' = run
     ELSE /\ pc' = "done"
          /\ run' = markAllFailed(testItems, run)
          /\ UNCHANGED <<listener, timer, promise>>
  /\ UNCHANGED <<watchVars, pairVars, resultFile, marks, call, returned,
                 testItems, index, token, session, handler, invocations>>

\* the user cancels the run while executeBatchTests waits
Cancel ==
  /\ pc \in {"resolving", "starting", "awaiting"}
  /\ ~token
  /\ token' = TRUE
  /\ UNCHANGED <<watchVars, pairVars, invocations, resultFile, run, marks, call, returned, testItems, pc, index,
                 session, listener, timer, handler, promise>>

\* the session ends; the listener, when still registered, disposes itself
\* and its handler starts waiting
OnDidTerminateDebugSession ==
  /\ session = "running"
  /\ session' = "terminated"
  /\ IF listener
     THEN listener' = FALSE /\ handler' = "waiting"
     ELSE UNCHANGED <<listener, handler>>
  /\ UNCHANGED <<watchVars, pairVars, invocations, resultFile, run, marks, call, returned, testItems, pc, index,
                 token, timer, promise>>

\* the handler after its wait: the report is checked and the promise
\* resolved with the path of the result file
HandlerResolves ==
  /\ handler = "waiting"
  /\ handler' = "done"
  /\ promise' = resolve(promise, [passed |-> checkCucumberResults(resultFile),
                                  resultFile |-> ResultFilePath])
  /\ UNCHANGED <<watchVars, pairVars, invocations, resultFile, run, marks, call, returned, testItems, pc, index,
                 token, session, listener, timer>>

\* the timeout disposes the listener and resolves nothing
TimeoutNoResolve ==
  /\ timer = "armed"
  /\ timer' = "fired"
  /\ listener' = FALSE
  /\ UNCHANGED <<watchVars, pairVars, invocations, resultFile, run, marks, call, returned, testItems, pc, index,
                 token, session, handler, promise>>

\* the timeout fires: the listener is disposed and the promise resolved
\* without a result file
Timeout ==
  /\ timer = "armed"
  /\ timer' = "fired"
  /\ listener' = FALSE
  /\ promise' = resolve(promise, [passed |-> FALSE, resultFile |-> ""])
  /\ UNCHANGED <<watchVars, pairVars, invocations, resultFile, run, marks, call, returned, testItems, pc, index,
                 token, session, handler>>

\* executeBatchTests goes on with the result: into the loop over the targets
\* when it has a result file, else all targets are failed
Resume ==
  /\ pc = "awaiting"
  /\ promise.state = "resolved"
  /\ IF promise.value.resultFile # ""
     THEN /\ pc' = "loop"
          /\ index' = 1
          /\ run' = run
     ELSE /\ pc' = "done"
          /\ run' = markAllFailed(testItems, run)
          /\ UNCHANGED index
  /\ UNCHANGED <<watchVars, pairVars, invocations, resultFile, marks, call, returned, testItems, token, session,
                 listener, timer, handler, promise>>

\* one round of the loop over the targets
ProcessTarget ==
  /\ pc = "loop"
  /\ index <= Len(testItems)
  /\ ~token
  /\ run' = processTarget(testItems[index], run, resultFile)
  /\ index' = index + 1
  /\ UNCHANGED <<watchVars, pairVars, invocations, resultFile, marks, call, returned, testItems, pc, token,
                 session, listener, timer, handler, promise>>

\* the loop is left, at its end or by the break on cancellation, and the
\* result file is cleaned up
CleanupResultFile ==
  /\ pc = "loop"
  /\ index > Len(testItems) \/ token
  /\ resultFile' = Unlinked
  /\ pc' = "done"
  /\ UNCHANGED <<watchVars, pairVars, invocations, run, marks, call, returned, testItems, index, token, session,
                 listener, timer, handler, promise>>

NextBatch ==
  \/ ExecuteBatchTests
  \/ GluePathNotSpecified
  \/ StartDebugging
  \/ StartDebuggingResolves
  \/ Cancel
  \/ OnDidTerminateDebugSession
  \/ HandlerResolves
  \/ Timeout
  \/ Resume
  \/ ProcessTarget
  \/ CleanupResultFile

SpecBatch == InitBatch /\ [][NextBatch]_vars

\* startDebugging does answer, and the timer of the wait fires when its
\* time has come
SpecBatchLive ==
  SpecBatch /\ WF_vars(StartDebuggingResolves) /\ WF_vars(Timeout)

(***************************************************************************)
(* The filter of the requested items: executeTests hands the items of the  *)
(* request to filterTestItems before the batch                             *)
(***************************************************************************)
MaxRequested == 3

\* item.parent: the item that holds the item among its children
HasParent(item) ==
  \E p \in AllItems : \E k \in 1..Len(p.children) : p.children[k] = item

parent(item) ==
  CHOOSE p \in AllItems : \E k \in 1..Len(p.children) : p.children[k] = item

\* the walk up the ancestors: one of them is in the set of requested items
RECURSIVE parentIsRunning(_, _)
parentIsRunning(item, runSet) ==
  IF ~HasParent(item) THEN FALSE
  ELSE IF parent(item) \in runSet THEN TRUE
  ELSE parentIsRunning(parent(item), runSet)

\* only the parent of an item is looked at, not the ancestors above it
filterTestItemsParentOnly(items) ==
  LET runSet == {items[k] : k \in 1..Len(items)}
  IN SelectSeq(items,
               LAMBDA item : ~(HasParent(item) /\ parent(item) \in runSet))

filterTestItems(items) ==
  LET runSet == {items[k] : k \in 1..Len(items)}
  IN SelectSeq(items, LAMBDA item : ~parentIsRunning(item, runSet))

\* the items of a request: the tree of one file and the feature of another
RequestItems == descendants(ItemOf(FileA), 3) \cup {ItemOf(FileX)}

\* a request names an item once
RequestLists ==
  UNION {{items \in [1..n -> RequestItems] :
            \A i, j \in 1..n : i # j => items[i] # items[j]} :
         n \in 0..MaxRequested}

\* the request is drawn, the call is still to be made
InitFilter ==
  /\ resultFile = [isValid |-> TRUE, results |-> <<>>]
  /\ run = [id \in AllIds |-> NotRun]
  /\ marks = 0
  /\ call \in {[fn |-> "filterTestItems", items |-> items,
                 state |-> "pending"] : items \in RequestLists}
  /\ returned = FALSE
  /\ testItems = <<>>
  /\ BatchIdle

FilterTestItems ==
  /\ call.fn = "filterTestItems"
  /\ call.state = "pending"
  /\ call' = [call EXCEPT !.state = "returned"]
  /\ returned' = filterTestItems(call.items)
  /\ UNCHANGED <<watchVars, pairVars, resultFile, run, marks, batchVars>>

NextFilter == FilterTestItems

SpecFilter == InitFilter /\ [][NextFilter]_vars

(***************************************************************************)
(* The watcher of the feature files: handleFileEvent with its debounce     *)
(* timers, the timer callback and createOrUpdateTest, which waits for the  *)
(* document before it touches the tree, the scans of discoverTests, which  *)
(* empty the tree and open the files found one by one, and dispose         *)
(***************************************************************************)
MaxEvents == 3

\* the calls of discoverTests: the first scan and one refresh
MaxScans == 2

\* s.includes(sub) on sequences of characters
includesSeq(s, sub) ==
  \E i \in 1..(Len(s) - Len(sub) + 1) : SubSeq(s, i, i + Len(sub) - 1) = sub

ExcludedPaths ==
  <<<<"t", "a", "r", "g", "e", "t">>,
    <<"b", "u", "i", "l", "d">>,
    <<"o", "u", "t">>,
    <<"d", "i", "s", "t">>,
    <<"n", "o", "d", "e", "_", "m", "o", "d", "u", "l", "e", "s">>,
    <<".", "g", "i", "t">>>>

\* the file is in a build directory
isExcluded(fsPath) ==
  LET filePath == toLowerCase(fsPath)
  IN \E k \in 1..Len(ExcludedPaths) :
       \/ includesSeq(filePath, <<"/">> \o ExcludedPaths[k] \o <<"/">>)
       \/ includesSeq(filePath, <<"\\">> \o ExcludedPaths[k] \o <<"\\">>)

\* the default of the setting excludeBuildDirectories
excludeDirs ==
  {ExcludedPaths[k] : k \in 1..Len(ExcludedPaths)}

\* the file matches the exclude pattern {**/target/**,**/build/**,...}: one
\* of the directories above it, relative to the workspace, has such a name
matchesExcludePattern(file) ==
  LET segments == split(file.relativePath, "/")
  IN \E k \in 1..(Len(segments) - 1) :
       segments[k] \in excludeDirs

\* the orders in which findFiles may list a set of files
Orderings(S) ==
  {files \in [1..Cardinality(S) -> S] :
     \A i, j \in 1..Cardinality(S) : i # j => files[i] # files[j]}

\* what openTextDocument and parseFeatureFile give for a file: a document
\* with a feature, a document without one (no "Feature:" line with a name),
\* or, for a file that is gone and whose document is not open, an error
Documents(file) ==
  IF file \in disk THEN {"feature", "no feature"}
  ELSE {"feature", "no feature", "error"}

\* watchedFiles after createOrUpdateTest got the document: the node of the
\* file is created or replaced when the document holds a feature
withFeature(watched, file, document) ==
  IF document = "feature" THEN watched \cup {file} ELSE watched

\* after construction: the tree is empty, the first scan is still to come
InitWatch ==
  /\ resultFile = [isValid |-> TRUE, results |-> <<>>]
  /\ run = [id \in AllIds |-> NotRun]
  /\ marks = 0
  /\ call = NoCall
  /\ returned = FALSE
  /\ testItems = <<>>
  /\ pc = "idle"
  /\ index = 1
  /\ token = FALSE
  /\ session = "none"
  /\ listener = FALSE
  /\ timer = "none"
  /\ handler = "idle"
  /\ promise = NoPromise
  /\ invocations = <<>>
  /\ PairIdle
  /\ disk \in SUBSET WatchFiles
  /\ watchedFiles = {}
  /\ updateTimers = [f \in WatchFiles |-> 0]
  /\ liveTimers = {}
  /\ nextTimer = 1
  /\ updating = {}
  /\ deleted = {}
  /\ handled = 0
  /\ scans = <<>>

\* a file is created, changed (or saved) or deleted and the event is handled:
\* a delete removes the node; a create or a change clears the timer kept for
\* the file and sets a new one
HandleFileEvent(eventType, file) ==
  /\ handled < MaxEvents
  /\ handled' = handled + 1
  /\ eventType = "create" => file \notin disk
  /\ eventType \in {"change", "delete"} => file \in disk
  /\ disk' = IF eventType = "delete" THEN disk \ {file} ELSE disk \cup {file}
  /\ deleted' = IF eventType = "delete" THEN deleted \cup {file}
                ELSE deleted \ {file}
  /\ IF isExcluded(file.fsPath)
     THEN UNCHANGED <<watchedFiles, updateTimers, liveTimers, nextTimer>>
     ELSE IF eventType = "delete"
     THEN /\ watchedFiles' = watchedFiles \ {file}
          /\ UNCHANGED <<updateTimers, liveTimers, nextTimer>>
     ELSE /\ liveTimers' =
               (liveTimers \ {h \in liveTimers : h.id = updateTimers[file]})
                 \cup {[file |-> file, id |-> nextTimer]}
          /\ updateTimers' = [updateTimers EXCEPT ![file] = nextTimer]
          /\ nextTimer' = nextTimer + 1
          /\ UNCHANGED watchedFiles
  /\ UNCHANGED <<resultFile, run, marks, call, returned, batchVars, pairVars,
                 updating, scans>>

\* a timer fires after its 1200 ms: createOrUpdateTest is called and starts
\* to open the document, and the entry of the file leaves the map
TimerFires(h) ==
  /\ h \in liveTimers
  /\ liveTimers' = liveTimers \ {h}
  /\ updating' = updating \cup {h}
  /\ updateTimers' = [updateTimers EXCEPT ![h.file] = 0]
  /\ UNCHANGED <<resultFile, run, marks, call, returned, batchVars, pairVars,
                 disk, watchedFiles, nextTimer, deleted, handled, scans>>

\* createOrUpdateTest, called by a timer, goes on after openTextDocument:
\* with a document that holds a feature the node of the file is replaced or
\* created; without a feature it returns; without a document the error is
\* caught
CreateOrUpdateTest(u) ==
  /\ u \in updating
  /\ updating' = updating \ {u}
  /\ \E document \in Documents(u.file) :
       watchedFiles' = withFeature(watchedFiles, u.file, document)
  /\ UNCHANGED <<resultFile, run, marks, call, returned, batchVars, pairVars,
                 disk, updateTimers, liveTimers, nextTimer, deleted, handled,
                 scans>>

\* discoverTests is called, by the timer of the first scan, the refresh
\* button or the refresh command: the tree and watchedFiles are emptied and
\* findFiles is awaited
DiscoverTests ==
  /\ Len(scans) < MaxScans
  /\ watchedFiles' = {}
  /\ scans' = Append(scans, [stage |-> "finding", files |-> <<>>])
  /\ UNCHANGED <<resultFile, run, marks, call, returned, batchVars, pairVars,
                 disk, updateTimers, liveTimers, nextTimer, updating, deleted,
                 handled>>

\* findFiles answers scan k with the feature files outside the excluded
\* directories; createOrUpdateTest is called for the first of them and
\* awaits its document
FindFilesResolves(k) ==
  /\ k \in 1..Len(scans)
  /\ scans[k].stage = "finding"
  /\ \E featureFiles \in Orderings({f \in disk : ~matchesExcludePattern(f)}) :
       scans' = [scans EXCEPT ![k] =
                   IF Len(featureFiles) = 0
                   THEN [stage |-> "done", files |-> <<>>]
                   ELSE [stage |-> "opening", files |-> featureFiles]]
  /\ UNCHANGED <<resultFile, run, marks, call, returned, batchVars, pairVars,
                 disk, watchedFiles, updateTimers, liveTimers, nextTimer,
                 updating, deleted, handled>>

\* the createOrUpdateTest of scan k goes on after openTextDocument, as the
\* one called by a timer does, and the loop of the scan calls it for the
\* next file or ends
ScanCreateOrUpdateTest(k) ==
  /\ k \in 1..Len(scans)
  /\ scans[k].stage = "opening"
  /\ \E document \in Documents(Head(scans[k].files)) :
       watchedFiles' =
         withFeature(watchedFiles, Head(scans[k].files), document)
  /\ scans' = [scans EXCEPT ![k] =
                 IF Len(scans[k].files) = 1
                 THEN [stage |-> "done", files |-> <<>>]
                 ELSE [stage |-> "opening", files |-> Tail(scans[k].files)]]
  /\ UNCHANGED <<resultFile, run, marks, call, returned, batchVars, pairVars,
                 disk, updateTimers, liveTimers, nextTimer, updating, deleted,
                 handled>>

\* dispose: the timers kept in the map are cleared, the map and watchedFiles
\* are emptied
Dispose ==
  /\ liveTimers' = {h \in liveTimers : h.id # updateTimers[h.file]}
  /\ updateTimers' = [f \in WatchFiles |-> 0]
  /\ watchedFiles' = {}
  /\ UNCHANGED <<resultFile, run, marks, call, returned, batchVars, pairVars,
                 disk, nextTimer, updating, deleted, handled, scans>>

NextWatch ==
  \/ \E eventType \in {"create", "change", "delete"}, file \in WatchFiles :
       HandleFileEvent(eventType, file)
  \/ \E h \in liveTimers : TimerFires(h)
  \/ \E u \in updating : CreateOrUpdateTest(u)
  \/ DiscoverTests
  \/ \E k \in 1..MaxScans : FindFilesResolves(k)
  \/ \E k \in 1..MaxScans : ScanCreateOrUpdateTest(k)
  \/ Dispose

SpecWatch == InitWatch /\ [][NextWatch]_vars

(***************************************************************************)
(* Two batches in flight: each has its configuration, its session, its     *)
(* listener for the termination of debug sessions and its wait; a session  *)
(* writes the result file named in its arguments before it terminates     *)
(***************************************************************************)
MaxBatches == 2

\* the target lists of the batches: a scenario at the same line of two files
\* and a feature
PairTargetLists ==
  {<<ItemOf(FileA).children[1]>>, <<ItemOf(FileX).children[1]>>,
   <<ItemOf(FileA)>>}

\* no batch is launched yet
InitPair ==
  /\ resultFile = [isValid |-> TRUE, results |-> <<>>]
  /\ run = [id \in AllIds |-> NotRun]
  /\ marks = 0
  /\ call = NoCall
  /\ returned = FALSE
  /\ testItems = <<>>
  /\ BatchIdle

\* Date.now() moves on
Tick ==
  /\ now + 1 \in Milliseconds
  /\ now' = now + 1
  /\ UNCHANGED <<resultFile, run, marks, call, returned, batchVars, watchVars,
                 batches, reportFiles>>

\* who calls runCucumberTestBatch: executeBatchTests of the test controller,
\* or runCucumberTest of the commands, with one target
Callers == {"executeBatchTests", "runCucumberTest"}

\* cleanupResultFile: the file, when there is one, is unlinked
cleanupResultFile(files, path) == [files EXCEPT ![path] = NotWritten]

\* the configuration of a batch that has not built one yet
NoConfiguration == [name |-> <<>>, args |-> <<>>, resultFile |-> ""]

\* one more batch, up to its first await: the call of runCucumberTestBatch
\* by one of its callers waits for the glue path and the classpath
Launch(items, caller) ==
  /\ Len(batches) < MaxBatches
  /\ batches' =
       Append(batches,
              [items |-> items,
               caller |-> caller,
               stage |-> "resolving",
               config |-> NoConfiguration,
               session |-> "none",
               listener |-> FALSE,
               timer |-> "none",
               handler |-> "idle",
               terminatedBy |-> 0,
               promise |-> NoPromise])
  /\ UNCHANGED <<resultFile, run, marks, call, returned, batchVars, watchVars,
                 now, reportFiles>>

\* no glue path was found and the user dismisses the box that asks for
\* one: batch b ends with a result without a result file; no configuration
\* is built and no session started
PairGluePathNotSpecified(b) ==
  /\ b \in 1..Len(batches)
  /\ batches[b].stage = "resolving"
  /\ batches' =
       [batches EXCEPT
          ![b].stage = "done",
          ![b].promise = resolve(Pending, [resultFile |-> "",
                                           read |-> NotWritten])]
  /\ UNCHANGED <<resultFile, run, marks, call, returned, batchVars, watchVars,
                 now, reportFiles>>

\* the glue path of batch b is known and its classpath has come: the result
\* file is named after the
\* time, the configuration after the targets, and startDebugging is called;
\* the debugger launches the session or refuses to
PairStartDebugging(b) ==
  /\ b \in 1..Len(batches)
  /\ batches[b].stage = "resolving"
  /\ \E started \in BOOLEAN :
       batches' =
         [batches EXCEPT
            ![b].stage = "starting",
            ![b].config = debugConfiguration(featuresOf(batches[b].items),
                                             resultFileAt(now)),
            ![b].session = IF started THEN "running" ELSE "refused"]
  /\ UNCHANGED <<resultFile, run, marks, call, returned, batchVars, watchVars,
                 now, reportFiles>>

\* startDebugging has answered batch b: when the session was started the
\* listener and the timeout are set and the wait begins, else the result
\* has no result file
PairStartDebuggingResolves(b) ==
  /\ b \in 1..Len(batches)
  /\ batches[b].stage = "starting"
  /\ batches' =
       IF batches[b].session # "refused"
       THEN [batches EXCEPT ![b].stage = "waiting",
                            ![b].listener = TRUE,
                            ![b].timer = "armed",
                            ![b].promise = Pending]
       ELSE [batches EXCEPT
               ![b].stage = "done",
               ![b].promise = resolve(Pending, [resultFile |-> "",
                                                read |-> NotWritten])]
  /\ UNCHANGED <<resultFile, run, marks, call, returned, batchVars, watchVars,
                 now, reportFiles>>

\* the session of batch b ends: its process has written its result file;
\* every listener registered at that time is called with the session, and
\* each one that finds the name of its own configuration disposes itself
\* and starts its handler; a batch that has no listener yet does not hear
TerminateSession(b) ==
  /\ b \in 1..Len(batches)
  /\ batches[b].session = "running"
  /\ reportFiles' = [reportFiles EXCEPT ![batches[b].config.resultFile] =
                       [writer |-> b]]
  /\ batches' =
       [c \in 1..Len(batches) |->
          LET heard == /\ batches[c].listener
                       /\ batches[b].config.name = batches[c].config.name
              ended == IF c = b
                       THEN [batches[c] EXCEPT !.session = "terminated"]
                       ELSE batches[c]
          IN IF heard
             THEN [ended EXCEPT !.listener = FALSE, !.handler = "waiting",
                                !.terminatedBy = b]
             ELSE ended]
  /\ UNCHANGED <<resultFile, run, marks, call, returned, batchVars, watchVars,
                 now>>

\* the handler of batch b after its wait: it reads the result file of its
\* batch and resolves the promise with the path of the file, which it
\* leaves in place; when this settles the promise of a batch called by
\* executeBatchTests, that caller goes on in the same turn, paints its
\* targets and unlinks the file with cleanupResultFile
PairHandlerResolves(b) ==
  /\ b \in 1..Len(batches)
  /\ batches[b].handler = "waiting"
  /\ LET path == batches[b].config.resultFile
         settles == batches[b].promise.state = "pending"
     IN /\ batches' =
             [batches EXCEPT
                ![b].handler = "done",
                ![b].stage = IF settles THEN "done" ELSE @,
                ![b].promise =
                   resolve(@, [resultFile |-> path, read |-> reportFiles[path]])]
        /\ reportFiles' =
             IF settles /\ batches[b].caller = "executeBatchTests"
             THEN cleanupResultFile(reportFiles, path)
             ELSE reportFiles
  /\ UNCHANGED <<resultFile, run, marks, call, returned, batchVars, watchVars,
                 now>>

\* the timeout of batch b fires: the listener is disposed and the wait
\* resolves without a result file
PairTimeout(b) ==
  /\ b \in 1..Len(batches)
  /\ batches[b].timer = "armed"
  /\ batches' =
       [batches EXCEPT
          ![b].timer = "fired",
          ![b].listener = FALSE,
          ![b].stage = IF batches[b].promise.state = "pending" THEN "done" ELSE @,
          ![b].promise = resolve(@, [resultFile |-> "", read |-> NotWritten])]
  /\ UNCHANGED <<resultFile, run, marks, call, returned, batchVars, watchVars,
                 now, reportFiles>>

NextPair ==
  \/ Tick
  \/ \E items \in PairTargetLists, caller \in Callers : Launch(items, caller)
  \/ \E b \in 1..MaxBatches : PairGluePathNotSpecified(b)
  \/ \E b \in 1..MaxBatches : PairStartDebugging(b)
  \/ \E b \in 1..MaxBatches : PairStartDebuggingResolves(b)
  \/ \E b \in 1..MaxBatches : TerminateSession(b)
  \/ \E b \in 1..MaxBatches : PairHandlerResolves(b)
  \/ \E b \in 1..MaxBatches : PairTimeout(b)

SpecPair == InitPair /\ [][NextPair]_vars

(***************************************************************************)
(* Properties                                                              *)
(***************************************************************************)
\* the text after the last separator of a normalized path
FinalSegment(p) ==
  IF \E k \in 1..Len(p) : p[k] = "/"
  THEN SubSeq(p, (CHOOSE k \in 1..Len(p) :
                    /\ p[k] = "/"
                    /\ \A j \in (k + 1)..Len(p) : p[j] # "/") + 1, Len(p))
  ELSE p

PathsCompared == call.fn = "isSameFeaturePath" /\ call.state = "returned"

\* C2: two paths whose filenames differ after normalization are never the
\* same feature path, also when one filename is the tail of the other
C2_DifferentFilenamesNeverMatch ==
  (/\ PathsCompared
   /\ FinalSegment(normalizePath(call.fullPath))
        # FinalSegment(normalizePath(call.relativePath)))
    => returned = FALSE

\* user-login against login: the candidate ends with the text of the
\* reference, the filenames differ, and the answer is no
C2_Witness ==
  /\ PathsCompared
  /\ call.fullPath = <<"/", "d", "/", "x", "a">>
  /\ call.relativePath = <<"a">>
  /\ returned = FALSE

(***************************************************************************)
(* What the report says of an element, read off the report alone           *)
(***************************************************************************)
Parsed == call.fn = "parseResultFileForFeature" /\ call.state = "returned"
Aggregated == call.fn = "hasFeatureFailures" /\ call.state = "returned"

\* the elements of the entry of a file in the report that are scenarios
OwnEntries(file) ==
  {i \in 1..Len(resultFile.results) : resultFile.results[i].uri = UriOf(file)}
ScenariosOf(entry) ==
  SelectSeq(entry.elements, LAMBDA e : e.type # "background")

\* the one classified scenario of a classification report
TheScenario == ScenariosOf(resultFile.results[1])[1]
OneScenario ==
  /\ Len(resultFile.results) = 1
  /\ Len(resultFile.results[1].elements) = 1
  /\ resultFile.results[1].elements[1].type # "background"
TheVerdict == returned[1]

NotPassedHook(h) == h.hasResult /\ h.status # "passed"
BeforeFailed(e) == \E i \in 1..Len(e.before) : NotPassedHook(e.before[i])
AfterFailed(e) == \E i \in 1..Len(e.after) : NotPassedHook(e.after[i])
StepPassed(st) == st.hasResult /\ st.status = "passed"
StepSkipped(st) == st.hasResult /\ st.status = "skipped"
StepFailing(st) == ~StepPassed(st) /\ ~StepSkipped(st)
HasFailingStep(e) == \E i \in 1..Len(e.steps) : StepFailing(e.steps[i])
FirstFailingStep(e) ==
  e.steps[CHOOSE i \in 1..Len(e.steps) :
            /\ StepFailing(e.steps[i])
            /\ \A j \in 1..(i - 1) : ~StepFailing(e.steps[j])]
AllSkipped(e) ==
  /\ Len(e.steps) > 0
  /\ \A i \in 1..Len(e.steps) : StepSkipped(e.steps[i])
SomeSkipped(e) == \E i \in 1..Len(e.steps) : StepSkipped(e.steps[i])

\* C4: a background never yields a verdict and never makes the feature
\* failed: the verdicts are those of the scenarios of the entry, in order,
\* and a feature whose scenarios are all clean has no failure
C4_BackgroundExcluded ==
  /\ Parsed =>
       \A i \in OwnEntries(call.file) :
         LET scenarios == ScenariosOf(resultFile.results[i])
         IN /\ Len(returned) = Len(scenarios)
            /\ \A k \in 1..Len(scenarios) : returned[k].line = scenarios[k].line
  /\ Aggregated =>
       \A i \in OwnEntries(call.file) :
         LET scenarios == ScenariosOf(resultFile.results[i])
         IN (\A k \in 1..Len(scenarios) :
               /\ ~BeforeFailed(scenarios[k])
               /\ ~AfterFailed(scenarios[k])
               /\ \A j \in 1..Len(scenarios[k].steps) :
                    StepPassed(scenarios[k].steps[j]))
            => returned = FALSE

\* a background with a failing step or hook was in the report and the
\* feature has no failure
C4_Witness ==
  /\ Aggregated
  /\ returned = FALSE
  /\ \E i \in OwnEntries(call.file) :
       \E k \in 1..Len(resultFile.results[i].elements) :
         LET e == resultFile.results[i].elements[k]
         IN /\ e.type = "background"
            /\ HasFailingStep(e)
            /\ BeforeFailed(e)

\* C5: a Before hook that did not pass decides the verdict: failed, label
\* "Before Hook Failed", at the line of the element, whatever the steps
C5_BeforeHookWins ==
  (Parsed /\ OneScenario /\ BeforeFailed(TheScenario)) =>
    /\ Len(returned) = 1
    /\ ~TheVerdict.passed
    /\ TheVerdict.failedStep # Undefined
    /\ TheVerdict.failedStep.name = <<"Before Hook Failed">>
    /\ TheVerdict.failedStep.line = TheScenario.line

\* a Before hook failed, the first step failed too, the label is the hook's
C5_Witness ==
  /\ Parsed /\ OneScenario
  /\ BeforeFailed(TheScenario)
  /\ Len(TheScenario.steps) > 1
  /\ StepFailing(TheScenario.steps[1])
  /\ TheVerdict.failedStep.name = <<"Before Hook Failed">>

\* the text a failing step is reported with: its error text, or
\* "Step <status>" when it has none
StepText(st) ==
  IF st.hasResult /\ st.error_message # "" THEN <<st.error_message>>
  ELSE <<"Step ", IF st.hasResult THEN st.status ELSE "no result">>

StepFailureCase ==
  /\ Parsed /\ OneScenario
  /\ ~BeforeFailed(TheScenario)
  /\ HasFailingStep(TheScenario)

\* C6 as stated: the failure cause is the first step that is neither passed
\* nor skipped, reported at its line with its error text as the message
C6_MessageIsErrorText ==
  StepFailureCase =>
    /\ ~TheVerdict.passed
    /\ TheVerdict.failedStep # Undefined
    /\ TheVerdict.failedStep.line = FirstFailingStep(TheScenario).line
    /\ TheVerdict.failedStep.errorMessage
         = <<FirstFailingStep(TheScenario).error_message>>

\* C6 amended: the failure cause is the first step that is neither passed
\* nor skipped, reported at its line; the message is its error text, or
\* "Step <status>" when the step has no error text
C6_FirstFailingStepReported ==
  StepFailureCase =>
    /\ ~TheVerdict.passed
    /\ TheVerdict.failedStep # Undefined
    /\ TheVerdict.failedStep.line = FirstFailingStep(TheScenario).line
    /\ TheVerdict.failedStep.errorMessage
         = StepText(FirstFailingStep(TheScenario))

\* steps [passed, skipped, failed(AssertionError), skipped]: the third step's
\* line and text
C6_Witness ==
  /\ StepFailureCase
  /\ Len(TheScenario.steps) = 4
  /\ StepPassed(TheScenario.steps[1])
  /\ StepSkipped(TheScenario.steps[2])
  /\ TheScenario.steps[3].status = "failed"
  /\ StepSkipped(TheScenario.steps[4])
  /\ TheVerdict.failedStep.line = TheScenario.steps[3].line
  /\ TheVerdict.failedStep.errorMessage = <<"AssertionError">>

\* C7: all steps skipped and no hook failure: failed, label "Scenario Setup
\* Error", at the line of the element
C7_AllSkippedIsSetupError ==
  (/\ Parsed /\ OneScenario
   /\ AllSkipped(TheScenario)
   /\ ~BeforeFailed(TheScenario)
   /\ ~AfterFailed(TheScenario)) =>
    /\ ~TheVerdict.passed
    /\ TheVerdict.failedStep # Undefined
    /\ TheVerdict.failedStep.name = <<"Scenario Setup Error">>
    /\ TheVerdict.failedStep.line = TheScenario.line

\* three skipped steps, reported at the element's line and not a step's
C7_Witness ==
  /\ Parsed /\ OneScenario
  /\ Len(TheScenario.steps) = 3
  /\ AllSkipped(TheScenario)
  /\ ~BeforeFailed(TheScenario)
  /\ ~AfterFailed(TheScenario)
  /\ TheVerdict.failedStep.name = <<"Scenario Setup Error">>
  /\ TheVerdict.failedStep.line = ElementLine

\* the cause the precedence of the classifier gives an element:
\* Before hook, step, all steps skipped, no steps, After hook
NoCause == [kind |-> "none", line |-> 0]
EarlierCause(e) ==
  IF BeforeFailed(e) THEN [kind |-> "before", line |-> e.line]
  ELSE IF HasFailingStep(e)
  THEN [kind |-> "step", line |-> FirstFailingStep(e).line]
  ELSE IF AllSkipped(e) THEN [kind |-> "skipped", line |-> e.line]
  ELSE IF Len(e.steps) = 0 THEN [kind |-> "empty", line |-> e.line]
  ELSE NoCause
CauseOf(e) ==
  IF EarlierCause(e) # NoCause THEN EarlierCause(e)
  ELSE IF AfterFailed(e) THEN [kind |-> "after", line |-> e.line]
  ELSE NoCause

\* the cause a verdict carries, by its label
CauseIn(failedStep) ==
  IF failedStep = Undefined THEN NoCause
  ELSE [kind |-> IF failedStep.name = <<"Before Hook Failed">> THEN "before"
                 ELSE IF failedStep.name = <<"Scenario Setup Error">> THEN "skipped"
                 ELSE IF failedStep.name = <<"Empty Scenario">> THEN "empty"
                 ELSE IF failedStep.name = <<"After Hook Failed">> THEN "after"
                 ELSE "step",
        line |-> failedStep.line]

\* C8: an After hook that did not pass fails the element and keeps the
\* cause recorded before it; with no earlier cause the label is "After Hook
\* Failed" at the line of the element
C8_AfterHookNeverOverrides ==
  (Parsed /\ OneScenario /\ AfterFailed(TheScenario)) =>
    /\ ~TheVerdict.passed
    /\ CauseIn(TheVerdict.failedStep) =
         IF EarlierCause(TheScenario) # NoCause
         THEN EarlierCause(TheScenario)
         ELSE [kind |-> "after", line |-> TheScenario.line]

\* a step failed and the After hook failed: the step stays the cause
C8_Witness ==
  /\ Parsed /\ OneScenario
  /\ AfterFailed(TheScenario)
  /\ ~BeforeFailed(TheScenario)
  /\ HasFailingStep(TheScenario)
  /\ CauseIn(TheVerdict.failedStep).kind = "step"
  /\ TheVerdict.failedStep.line # TheScenario.line

\* C9: a scenario is classified passed only if all its steps passed and no
\* Before or After hook has a status other than passed
C9_PassedOnlyIfAllPassed ==
  (Parsed /\ OneScenario /\ TheVerdict.passed) =>
    /\ \A i \in 1..Len(TheScenario.steps) : StepPassed(TheScenario.steps[i])
    /\ ~BeforeFailed(TheScenario)
    /\ ~AfterFailed(TheScenario)

\* passed hooks around passed steps: classified passed
C9_Witness ==
  /\ Parsed /\ OneScenario
  /\ TheVerdict.passed
  /\ Len(TheScenario.steps) = MaxSteps
  /\ Len(TheScenario.before) > 0
  /\ Len(TheScenario.after) > 0

\* C10 as stated: a failed verdict carries the cause the precedence gives,
\* and an element without any of the five causes is passed
C10_EveryFailureHasCause ==
  (Parsed /\ OneScenario) =>
    /\ ~TheVerdict.passed =>
         /\ TheVerdict.failedStep # Undefined
         /\ CauseIn(TheVerdict.failedStep) = CauseOf(TheScenario)
    /\ CauseOf(TheScenario) = NoCause => TheVerdict.passed

\* C10 amended: the cause a verdict carries is the one the precedence
\* gives; an element without any of the five causes is passed unless one
\* of its steps is skipped, and then it is failed and carries no cause
C10_CauseByPrecedence ==
  (Parsed /\ OneScenario) =>
    /\ CauseIn(TheVerdict.failedStep) = CauseOf(TheScenario)
    /\ CauseOf(TheScenario) # NoCause => ~TheVerdict.passed
    /\ CauseOf(TheScenario) = NoCause =>
         (TheVerdict.passed <=> ~SomeSkipped(TheScenario))

\* steps passed then skipped, no hook failure: failed without a cause
C10_Witness ==
  /\ Parsed /\ OneScenario
  /\ Len(TheScenario.steps) = 2
  /\ StepPassed(TheScenario.steps[1])
  /\ StepSkipped(TheScenario.steps[2])
  /\ ~AfterFailed(TheScenario)
  /\ ~BeforeFailed(TheScenario)
  /\ ~TheVerdict.passed
  /\ TheVerdict.failedStep = Undefined

(***************************************************************************)
(* Isolation of the files of one report                                    *)
(***************************************************************************)
\* two files of the same name in different directories
SameNameFiles(f, g) ==
  /\ f # g
  /\ FinalSegment(f.relativePath) = FinalSegment(g.relativePath)

\* both files are in the report, each under its own workspace-relative path
BothReported(f, g) == OwnEntries(f) # {} /\ OwnEntries(g) # {}

OwnEntry(f) == resultFile.results[CHOOSE i \in OwnEntries(f) : TRUE]

\* C3: with two same-name files of different directories both in the
\* report, the verdicts and the failure flag asked for one file are those of
\* the entry of that file, never those of the entry of the other file,
\* whatever the order of the entries
C3_SameNameFilesIsolated ==
  \A g \in Files :
    ((Parsed \/ Aggregated)
       /\ SameNameFiles(call.file, g) /\ BothReported(call.file, g)) =>
      /\ Parsed =>
           returned = classifyElements(OwnEntry(call.file).elements)
      /\ Aggregated =>
           returned = (\E k \in 1..Len(ScenariosOf(OwnEntry(call.file))) :
                         ~classifyScenario(
                            ScenariosOf(OwnEntry(call.file))[k]).passed)

\* the scenario of a file's own entry at a line, as a set (empty if none)
OwnScenariosAt(f, line) ==
  IF OwnEntries(f) = {} THEN {}
  ELSE {e \in {ScenariosOf(OwnEntry(f))[k] :
                 k \in 1..Len(ScenariosOf(OwnEntry(f)))} : e.line = line}

\* the entries of f and g both hold a scenario at the line, one passed and
\* one failed
OnePassedOneFailed(f, g, line) ==
  \E ef \in OwnScenariosAt(f, line) : \E eg \in OwnScenariosAt(g, line) :
    classifyScenario(ef).passed # classifyScenario(eg).passed

ScenarioNodeId(f, line) == f.fsPath \o <<":scenario:">> \o digits(line)

StrictDescendantIds(item) == {d.id : d \in descendants(item, 3)} \ {item.id}

MarkedItem(id) == CHOOSE item \in AllItems : item.id = id

\* C1: when the entries of two files hold a scenario at the same line, one
\* passed and one failed, painting the tree of one of the files gives the
\* node at that line the verdict of its own file and paints no node of the
\* other file
C1_OwnFileVerdictOnly ==
  [][(call'.fn = "markChildrenFromResults" /\ marks' # marks) =>
       \A f \in Files : \A g \in Files : \A line \in {5, 9} :
         (/\ f # g
          /\ MarkedItem(call'.item).uri = f.fsPath
          /\ OnePassedOneFailed(f, g, line)) =>
           /\ ScenarioNodeId(f, line) \in StrictDescendantIds(MarkedItem(call'.item))
                => run'[ScenarioNodeId(f, line)].state =
                     (IF \E e \in OwnScenariosAt(f, line) : classifyScenario(e).passed
                      THEN "passed" ELSE "failed")
           /\ \A m \in descendants(ItemOf(g), 3) : run'[m.id] = run[m.id]
    ]_vars

(***************************************************************************)
(* The empty element                                                       *)
(***************************************************************************)
\* C11: an element with no steps and no Before hook failure is failed with
\* the label "Empty Scenario", never "Scenario Setup Error", at the line of
\* the element, whatever its After hooks
C11_EmptyScenario ==
  (/\ Parsed /\ OneScenario
   /\ Len(TheScenario.steps) = 0
   /\ ~BeforeFailed(TheScenario)) =>
    /\ ~TheVerdict.passed
    /\ TheVerdict.failedStep # Undefined
    /\ TheVerdict.failedStep.name = <<"Empty Scenario">>
    /\ TheVerdict.failedStep.errorMessage = <<"Scenario has no steps">>
    /\ TheVerdict.failedStep.line = TheScenario.line

\* no steps, a passed Before hook and a failed After hook: Empty Scenario
C11_Witness ==
  /\ Parsed /\ OneScenario
  /\ Len(TheScenario.steps) = 0
  /\ Len(TheScenario.before) > 0
  /\ ~BeforeFailed(TheScenario)
  /\ AfterFailed(TheScenario)
  /\ TheVerdict.failedStep.name = <<"Empty Scenario">>
  /\ TheVerdict.failedStep.line = ElementLine

(***************************************************************************)
(* Painting: lines, locations and depth                                    *)
(***************************************************************************)
\* the line a node stands at in the feature file
OwnLine(item) == item.range + 1

IsLeaf(item) == Len(item.children) = 0

\* the nodes below an item, at any depth
StrictDescendants(item) == descendants(item, 3) \ {item}

\* the scenarios of the report entry of the file at a line
ReportedAt(f, line) == OwnScenariosAt(f, line)

\* passed or failed, as the report says of an element
StateOf(e) ==
  IF CauseOf(e) = NoCause /\ ~SomeSkipped(e) THEN "passed" ELSE "failed"

\* C12: painting gives each leaf node the verdict of the report element at
\* the node's own line and no other: a leaf whose line has an element gets
\* that element's verdict, a leaf whose line has none is left as it was
C12_LeafPaintedByOwnLine ==
  [][(call'.fn = "markChildrenFromResults" /\ marks' # marks) =>
       \A n \in StrictDescendants(MarkedItem(call'.item)) :
         IsLeaf(n) =>
           IF ReportedAt(FileA, OwnLine(n)) = {}
           THEN run'[n.id] = run[n.id]
           ELSE \A e \in ReportedAt(FileA, OwnLine(n)) :
                  run'[n.id].state = StateOf(e)
    ]_vars

\* the line of the scenario in the id of a node: the line its verdict is
\* looked up by
ScenarioLineInId(id) == parseInt(beforeFirstColon(split(id, ":scenario:")[2]))

IsScenarioNode(item) == Len(split(item.id, ":scenario:")) > 1

\* C13: the location of a failed node is the report line of the verdict it
\* was painted with: the line of the failing step for a step failure,
\* whatever the text of the step, and the line of the element for a hook
\* failure, all steps skipped and an empty element
C13_LocationIsReportLine ==
  \A n \in descendants(ItemOf(FileA), 3) :
    (IsScenarioNode(n) /\ run[n.id].state = "failed") =>
      \A e \in ReportedAt(FileA, ScenarioLineInId(n.id)) :
        CauseOf(e) # NoCause =>
          run[n.id].location = CauseOf(e).line - 1

\* C14: painting descends through every container: every node below the
\* item the painting started from, at any depth, whose line has a verdict
\* in the entry of the file is painted with that verdict
C14_PaintedAtAnyDepth ==
  [][(call'.fn = "markChildrenFromResults" /\ marks' # marks) =>
       \A n \in StrictDescendants(MarkedItem(call'.item)) :
         \A e \in ReportedAt(FileA, OwnLine(n)) :
           run'[n.id].state = StateOf(e)
    ]_vars

(***************************************************************************)
(* The aggregate against the verdicts                                      *)
(***************************************************************************)
\* the verdicts the extractor gives for the file the aggregate was asked of
VerdictsFor(file) == parseResultFileForFeature(resultFile, file.fsPath)

\* C15: for a valid report the aggregate says "failures" exactly when the
\* extractor gives at least one failed verdict for the file, also for
\* elements with no steps
C15_AggregateIffFailedVerdict ==
  (Aggregated /\ resultFile.isValid) =>
    (returned <=> \E k \in 1..Len(VerdictsFor(call.file)) :
                    ~VerdictsFor(call.file)[k].passed)

(***************************************************************************)
(* The file that is not in the report                                      *)
(***************************************************************************)
\* no entry of the report has a path that matches the path of the file
NoEntryMatches(file) ==
  \A i \in 1..Len(resultFile.results) :
    ~isSameFeaturePath(file.fsPath, featurePathOf(resultFile.results[i]))

\* C16: for a valid report without an entry matching the requested file the
\* extractor returns the empty list and the aggregate returns false; both
\* calls return
C16_UnmatchedFileIsEmptyAndPassed ==
  ((Parsed \/ Aggregated)
     /\ resultFile.isValid /\ NoEntryMatches(call.file)) =>
    /\ call.state = "returned"
    /\ Parsed => returned = <<>>
    /\ Aggregated => returned = FALSE

\* the report holds a failed scenario of another file only
C16_Witness ==
  /\ Aggregated
  /\ call.file = FileA
  /\ resultFile.isValid /\ NoEntryMatches(FileA)
  /\ \E i \in 1..Len(resultFile.results) :
       \E k \in 1..Len(resultFile.results[i].elements) :
         /\ resultFile.results[i].elements[k].type = "scenario"
         /\ HasFailingStep(resultFile.results[i].elements[k])
  /\ returned = FALSE

(***************************************************************************)
(* The batch: its end, the wait and the cancellation                       *)
(***************************************************************************)
TargetIds == {testItems[k].id : k \in 1..Len(testItems)}

\* the targets and all the nodes below them
TargetTreeIds ==
  UNION {{d.id : d \in descendants(testItems[k], 3)} : k \in 1..Len(testItems)}

\* C17: when a batch ends with no usable report (the file was never written,
\* is not JSON or is not an array), every target is painted failed and no
\* target or node below a target is painted passed
C17_NoUsableReportFailsAll ==
  [][(pc # "done" /\ pc' = "done" /\ ~resultFile.isValid) =>
       /\ \A id \in TargetIds : run'[id].state = "failed"
       /\ \A id \in TargetTreeIds : run'[id].state # "passed"
    ]_vars

Resolved == promise.state = "resolved"

\* the result of a wait that timed out: not passed, no result file
TimedOutResult == [passed |-> FALSE, resultFile |-> ""]

\* C18: once the session has started the wait always resolves; when it
\* resolves while no termination event has arrived, the session still
\* running, it resolves as timed out, without a result file
C18_WaitAlwaysResolves ==
  /\ (session = "running") ~> Resolved
  /\ (promise.state = "pending") ~> Resolved
  /\ [](Resolved /\ session = "running" => promise.value = TimedOutResult)

\* the wait resolved by the timeout while the session is still running
C18_Witness ==
  /\ Resolved
  /\ session = "running"
  /\ timer = "fired"
  /\ promise.value = TimedOutResult

\* C19: the wait resolves once: after the first resolution neither the
\* termination handler nor the timeout changes the outcome, the handler
\* reads the report at most once, and once the batch has painted its
\* targets nothing is painted again
C19_ResolvesExactlyOnce ==
  [][/\ Resolved => promise' = promise
     /\ handler = "done" => handler' = "done"
     /\ pc = "done" => (pc' = "done" /\ run' = run)
    ]_vars

\* the timeout fired while the handler was at work; the handler finished
\* later; the outcome is the timeout's and the batch painted once
C19_Witness ==
  /\ timer = "fired"
  /\ handler = "done"
  /\ session = "terminated"
  /\ promise.value = TimedOutResult
  /\ pc = "done"
  /\ \A id \in TargetIds : run[id].state = "failed"

\* the verdict of a target comes from the report
ReportDerived(id) ==
  \/ run[id].state = "passed"
  \/ run[id].state = "failed" /\ run[id] # Failed(<<"Test failed. Check ", "terminal", " for details.">>, NaN)

Terminal(id) == run[id].state \in {"passed", "failed"}

BatchTimedOut == Resolved /\ promise.value = TimedOutResult

\* C20: when a batch has timed out or was cancelled, every target ends
\* failed, and never do some targets carry verdicts of the report while
\* others have no terminal verdict
C20_TimeoutOrCancelFailsAll ==
  (pc = "done" /\ (BatchTimedOut \/ token)) =>
    /\ \A id \in TargetIds : run[id].state = "failed"
    /\ ~(/\ \E id \in TargetIds : ReportDerived(id)
         /\ \E id \in TargetIds : ~Terminal(id))

(***************************************************************************)
(* The batch: what reaches the caller                                      *)
(***************************************************************************)
\* executeBatchTests returned to executeTests
ReturnedNormally == pc = "done"

\* executeBatchTests threw to executeTests
RaisedToCaller == pc = "thrown"

\* C21: a batch asked to run zero targets raises an error to its caller
\* and does not return normally; no batch with a target raises, whatever
\* the report, the timeout or the cancellation
C21_OnlyZeroTargetsRaise ==
  /\ Len(testItems) = 0 => ~ReturnedNormally
  /\ RaisedToCaller => Len(testItems) = 0

(***************************************************************************)
(* The invocation of a batch                                               *)
(***************************************************************************)
\* the file a test item belongs to
FileOfItem(item) == CHOOSE f \in Files : f.fsPath = item.uri

\* the address the process is to be given for a target: the relative path
\* of its file alone for a feature, with the line of the node for a
\* scenario, a rule and an example row
AddressOf(item) ==
  IF item.id = item.uri
  THEN FileOfItem(item).relativePath
  ELSE FileOfItem(item).relativePath \o <<":">> \o digits(OwnLine(item))

RECURSIVE SpaceSeparated(_)
SpaceSeparated(addresses) ==
  IF Len(addresses) = 0 THEN <<>>
  ELSE IF Len(addresses) = 1 THEN addresses[1]
  ELSE addresses[1] \o <<" ">> \o SpaceSeparated(Tail(addresses))

\* C22 as stated: every batch of one or more targets that has got past
\* its first wait has handed exactly one configuration to the debugger, and
\* its target list is the list of the addresses of the targets, one per
\* target, in the order of the targets: the relative path for a feature,
\* path:line of the node for a scenario, a rule and an example row
C22_OneInvocationAllTargets ==
  /\ Len(invocations) <= 1
  /\ (Len(testItems) >= 1 /\ pc \notin {"idle", "resolving"}) =>
       /\ Len(invocations) = 1
       /\ invocations[1].args =
            SpaceSeparated([k \in 1..Len(testItems) |-> AddressOf(testItems[k])])

\* the batch ended with no configuration handed over: every target is
\* failed with the message of a result without result file, and no session
\* ever existed
EndedWithoutLaunch ==
  /\ pc = "done"
  /\ session = "none"
  /\ promise = NoPromise
  /\ \A id \in TargetIds :
       run[id] = Failed(<<"Test failed. Check ", "terminal", " for details.">>, NaN)

\* C22 amended: a batch hands at most one configuration to the debugger,
\* never one per target, and none before the glue path and the classpath
\* are known; the configuration it hands over lists the addresses of all
\* its targets, one per target, in their order; a batch of one or more
\* targets that has got past that wait has handed over exactly one, or has
\* ended without a launch, all its targets failed, because no glue path
\* was given
C22_OneInvocationOnceGluePathKnown ==
  /\ Len(invocations) <= 1
  /\ pc \in {"idle", "resolving"} => Len(invocations) = 0
  /\ Len(invocations) = 1 =>
       /\ Len(testItems) >= 1
       /\ invocations[1].args =
            SpaceSeparated([k \in 1..Len(testItems) |-> AddressOf(testItems[k])])
  /\ (Len(testItems) >= 1 /\ pc \notin {"idle", "resolving"}) =>
       \/ Len(invocations) = 1
       \/ EndedWithoutLaunch

\* a batch of the example row at line 11 and another feature is waiting for
\* its one session
C22_Witness ==
  /\ pc = "awaiting"
  /\ Len(testItems) = 2
  /\ testItems[1] = ItemOf(FileA).children[2].children[1].children[1]
  /\ testItems[2] = ItemOf(FileX)
  /\ Len(invocations) = 1
  /\ invocations[1].args =
       <<"d", "/", "a", ":", "1", "1", " ", "d", "/", "x", "a">>

(***************************************************************************)
(* The spellings of a path                                                 *)
(***************************************************************************)
\* c.toUpperCase()
UpperChar(c) ==
  IF \E k \in 1..Len(LowerCase) : LowerCase[k] = c
  THEN UpperCase[CHOOSE k \in 1..Len(LowerCase) : LowerCase[k] = c]
  ELSE c

InUpperCase(s) == [i \in 1..Len(s) |-> UpperChar(s[i])]

\* the lists of segments of the paths compared
SegmentLists == UNION {[1..n -> Names] : n \in 1..MaxSegments}

\* the ways a path is written: with or without the prefix file: or file://,
\* with or without a leading ./ or a leading separator, with forward
\* slashes or backslashes, in lower case or in upper case
Spellings(segments) ==
  LET plain ==
        UNION {{lead \o join(segments, separator) :
                  lead \in {<<>>, <<".", separator>>, <<separator>>}} :
               separator \in Separators}
      written == {scheme \o p : scheme \in {<<>>, FilePrefix1, FilePrefix2},
                                p \in plain}
  IN written \cup {InUpperCase(p) : p \in written}

\* the other ways of writing a path of the set
Rewritings(path) ==
  UNION {Spellings(segments) :
           segments \in {s \in SegmentLists : path \in Spellings(s)}}

\* C24: the answer of isSameFeaturePath is the same for every way of
\* writing either argument: prefix file: or file:// or none, leading ./ or
\* leading separator or none, backslashes or forward slashes, upper or
\* lower case
C24_SpellingDoesNotMatter ==
  PathsCompared =>
    /\ \A q \in Rewritings(call.fullPath) :
         isSameFeaturePath(q, call.relativePath) = returned
    /\ \A q \in Rewritings(call.relativePath) :
         isSameFeaturePath(call.fullPath, q) = returned

(***************************************************************************)
(* The batch: every target gets one terminal verdict                       *)
(***************************************************************************)
\* the ids of the nodes of the subtree of an item
TreeIds(item) == {d.id : d \in descendants(item, 3)}

\* C25: when a batch that was not cancelled has ended, every target has a
\* terminal verdict, passed or failed; a verdict once painted on a node is
\* not replaced by another in the batch, and the round of the loop for a
\* target paints nodes of the subtree of that target only
C25_TerminalVerdictOnce ==
  /\ []((pc = "done" /\ ~token) => \A id \in TargetIds : Terminal(id))
  /\ [][/\ \A id \in AllIds : Terminal(id) => run'[id] = run[id]
        /\ (pc = "loop" /\ index' # index) =>
             \A id \in AllIds :
               run'[id] # run[id] => id \in TreeIds(testItems[index])
       ]_vars

\* a batch of two features came to its end through the report: one target
\* passed, the other failed, and the scenarios below them are painted
C25_Witness ==
  /\ pc = "done"
  /\ ~token
  /\ testItems = <<ItemOf(FileA), ItemOf(FileX)>>
  /\ run[FileA.fsPath] = Passed
  /\ run[FileX.fsPath].state = "failed"
  /\ run[ScenarioNodeId(FileA, 5)] = Passed
  /\ run[ScenarioNodeId(FileX, 5)].state = "failed"

(***************************************************************************)
(* The filter of the requested items                                       *)
(***************************************************************************)
Filtered == call.fn = "filterTestItems" /\ call.state = "returned"

\* the first item stands above the second in the tree
IsAncestor(a, d) == d \in descendants(a, 3) \ {a}

Requested == {call.items[k] : k \in 1..Len(call.items)}
Kept == {returned[k] : k \in 1..Len(returned)}

\* C26: filterTestItems keeps a requested item exactly when no ancestor of
\* it is requested, in the order of the request: the list returned never
\* holds a node with one of its descendants, and every requested item is
\* returned or has an ancestor that is
C26_KeptIffNoAncestorRequested ==
  Filtered =>
    /\ returned =
         SelectSeq(call.items,
                   LAMBDA item : ~\E a \in Requested : IsAncestor(a, item))
    /\ \A a, d \in Kept : ~IsAncestor(a, d)
    /\ \A item \in Requested :
         item \in Kept \/ \E a \in Kept : IsAncestor(a, item)

\* the example row was requested with the feature two levels above it and
\* with the feature of another file: the two features are kept
C26_Witness ==
  /\ Filtered
  /\ call.items = <<ItemOf(FileA).children[2].children[1].children[1],
                    ItemOf(FileA), ItemOf(FileX)>>
  /\ returned = <<ItemOf(FileA), ItemOf(FileX)>>

(***************************************************************************)
(* The watcher: one timer per file, the last event's, and deleted files    *)
(***************************************************************************)
LiveTimersOf(f) == {h \in liveTimers : h.file = f}

\* C27: a file has at most one timer pending; a create or a change event
\* of a file leaves the timer it sets as the only timer of the file; the
\* timer that fires for a file is that of the last event of the file, so a
\* burst of events brings one update; and once a delete event of a file
\* was handled the file has no node, until it is created again: no timer
\* that fires later brings the node back
C27_DebounceAndDelete ==
  /\ [](\A f \in WatchFiles : Cardinality(LiveTimersOf(f)) <= 1)
  /\ [][/\ \A f \in WatchFiles :
             updateTimers'[f] \notin {0, updateTimers[f]} =>
               {h \in liveTimers' : h.file = f}
                 = {[file |-> f, id |-> updateTimers'[f]]}
        /\ \A h \in updating' \ updating : h.id = updateTimers[h.file]
       ]_vars
  /\ [](\A f \in deleted : f \notin watchedFiles)

(***************************************************************************)
(* The batch: scenarios of one file as separate targets                    *)
(***************************************************************************)
\* another target of the batch is a scenario of the same file
HasSiblingTarget(k) ==
  \E j \in 1..Len(testItems) :
    /\ j # k
    /\ IsScenarioNode(testItems[j])
    /\ testItems[j].uri = testItems[k].uri

\* C28: when scenarios of one feature file are separate targets of a batch,
\* the round of the loop for such a target paints it with the verdict of
\* the report element at the line of the target, whatever the other
\* scenarios of the file did
C28_ScenarioTargetOwnVerdict ==
  [][(/\ pc = "loop"
      /\ index' # index
      /\ resultFile.isValid
      /\ IsScenarioNode(testItems[index])
      /\ HasSiblingTarget(index)) =>
       \A e \in ReportedAt(FileOfItem(testItems[index]),
                           OwnLine(testItems[index])) :
         run'[testItems[index].id].state = StateOf(e)
    ]_vars

(***************************************************************************)
(* Two batches in flight                                                   *)
(***************************************************************************)
\* the wait of batch b resolved as completed: with a result file
Completed(b) ==
  /\ batches[b].promise.state = "resolved"
  /\ batches[b].promise.value.resultFile # ""

\* C29: with two batches in flight, the wait of a batch resolves as
\* completed only after the termination of the session of that batch, on
\* the event of that session, and what it reads is the result file its own
\* session wrote, also when the batches have the same configuration name
\* or were started in the same millisecond
C29_OwnSessionOwnReport ==
  \A b \in 1..Len(batches) :
    Completed(b) =>
      /\ batches[b].session = "terminated"
      /\ batches[b].terminatedBy = b
      /\ batches[b].promise.value.read = [writer |-> b]

(***************************************************************************)
(* The path matcher as two rules                                           *)
(***************************************************************************)
\* the number of segments of a normalized path
SegmentCount(p) == Len(split(p, "/"))

\* C30: isSameFeaturePath answers yes exactly when the normalized candidate
\* equals the normalized reference or ends with "/" followed by it: the
\* rule on the filename and the trailing segments accepts nothing more,
\* and a candidate with fewer segments than the reference is never accepted
C30_TwoRulesDecide ==
  PathsCompared =>
    LET normalizedFull == normalizePath(call.fullPath)
        normalizedRelative == normalizePath(call.relativePath)
    IN /\ returned <=>
            \/ normalizedFull = normalizedRelative
            \/ endsWith(normalizedFull, <<"/">> \o normalizedRelative)
       /\ SegmentCount(normalizedFull) < SegmentCount(normalizedRelative)
            => returned = FALSE

\* the candidate is the filename of the reference alone: the filenames are
\* the same, the candidate has fewer segments, the answer is no
C30_Witness ==
  /\ PathsCompared
  /\ call.fullPath = <<"/", "a">>
  /\ call.relativePath = <<"d", "/", "a">>
  /\ returned = FALSE

====
